---- MODULE Spec2Model ----
(***************************************************************************)
(* Zone-Insight: the geospatial resolution and boundary acquisition code   *)
(* of services/api.ts, as state machines.                                  *)
(*                                                                         *)
(* The client is single-threaded JavaScript: the code between two awaits   *)
(* runs atomically, so every action below is the code from one resumption  *)
(* to the next await (or to the return / throw of the outermost call).     *)
(* Several calls may be in flight at once (Promise.all in App.tsx and in   *)
(* the store pagination); they are the processes of Procs.                 *)
(***************************************************************************)
EXTENDS Integers, Sequences, FiniteSets, TLC

\* ------------------------------------------------------------------ bounds
\* Calls one behaviour may start, over all callers together.
MaxCalls == 3
\* Steps of TickMs the clock may advance.
MaxTicks == 2
\* Pages the provider may announce for one store listing.
MaxPages == 14
\* Point tokens in one ring of a WKT text.
MaxPoints == 3

\* ------------------------------------------------------- program constants
\* PROXY_LIST.length
NumPaths == 2

\* getSgisToken: the validity buffer and the fallback for accessTimeout
TokenBufferMs == 300000
DefaultTimeoutMs == 14400000

\* The versions of services/api.ts the repository holds, by what tells them
\* apart: the one with the rotating PROXY_LIST (and the SGIS resolver), the
\* one with fetchStandard, the first one, with the bundled shapefile, and the
\* shapefile one whose district filter has no fallback.
Builds == {"rotating", "standard", "shapefile", "plainfilter"}

Procs == {"p1", "p2"}
Solo == {"p1"}
Paths == 0 .. (NumPaths - 1)

VARIABLES
    pc,                 \* per caller: where its outermost call stands
    loc,                \* per caller: the locals of its outermost call
    ret,                \* the return or throw the last step made, if it made one
    fr,                 \* per caller: the frame of its fetchWithRetry call
    currentProxyIndex,  \* module-level: the preferred entry of PROXY_LIST
    sgisAccessToken,    \* module-level: the cached bearer token, or NoToken
    tokenExpiry,        \* module-level: its expiry, ms
    polygonCache,       \* module-level: Map mainTrarNm -> polygon
    cachedFeatures,     \* module-level (first version): the features of zones.zip
    env,                \* the build and the page: the version, the keys, the libraries
    now,                \* Date.now(), ms
    nAuth,              \* tokens the provider has issued
    nObj,               \* arrays allocated for results
    firstPut,           \* history: per label, the first polygon stored and by which zone
    lastPut,            \* history: per label, the polygon stored last
    nCalls,             \* calls started so far (bounds the behaviours)
    nRet,               \* calls ended so far
    app                 \* App.tsx: the state of the component and its handlers in flight

netVars == <<fr, currentProxyIndex>>
sgisVars == <<sgisAccessToken, tokenExpiry, nAuth>>
cacheVars == <<polygonCache, cachedFeatures, nObj, firstPut, lastPut>>
callVars == <<pc, loc, nCalls, nRet>>
pageVars == <<env, app>>
vars == <<pc, loc, ret, fr, currentProxyIndex, sgisAccessToken, tokenExpiry,
          polygonCache, cachedFeatures, env, now, nAuth, nObj, firstPut, lastPut, nCalls, nRet,
          app>>

\* ------------------------------------------------------------ empty values
\* let sgisAccessToken = '': no token. Tokens are numbered from 1.
NoToken == 0
NoZone == [mainTrarNm |-> "none", adminCode |-> <<>>]
\* let cachedFeatures = null
NoFeatures == [loaded |-> FALSE, features |-> <<>>]
\* [] as a polygon: no ring.
EmptyPolygon == [obj |-> 0, rings |-> <<>>]
\* useState(null) for a zone, and the component as it is mounted: the initial
\* values of useState in App, and no handler in flight.
NullStats == [stores |-> 0, filters |-> "null"]
NullZone == [search |-> 0, trarNo |-> 0, type |-> "null", polygon |-> FALSE]
NoApp == [address |-> "", loading |-> FALSE, loadingMsg |-> "",
          error |-> "null", step |-> "input", searchType |-> "trade",
          resolvedAddress |-> "", foundZones |-> <<>>,
          tradeZone |-> NullZone, previewZone |-> NullZone,
          storeStats |-> NullStats, allRawStores |-> 0, dataDate |-> "null",
          filters |-> "null", tasks |-> <<>>, nStarted |-> 0]
\* No call has ended in the last step.
NoResult == [op |-> "none", kind |-> "none", value |-> EmptyPolygon,
             why |-> "none", hit |-> FALSE, reqs |-> <<>>, zone |-> NoZone,
             token |-> NoToken]

\* ------------------------------------------------------------ fetchWithRetry
\* What one attempt on one path can end with: fetch() rejecting, a response
\* that is not ok, response.text() rejecting, or the text.
NoError == [kind |-> "none", path |-> -1]
FetchError(kind, idx) == [kind |-> kind, path |-> idx]

IdleFrame ==
    [st |-> "idle", req |-> "none", i |-> 0, idx |-> 0, tried |-> <<>>,
     lastError |-> NoError, okPath |-> -1, thrown |-> NoError]

\* idx = (currentProxyIndex + i) % PROXY_LIST.length, read when iteration i
\* starts; the first version takes proxies[i].
PathIndex(build, cpi, i) ==
    IF build = "rotating" THEN (cpi + i) % NumPaths ELSE i

\* A call of fetchWithRetry(targetUrl): iteration 0 up to its first await.
fetchWithRetry(build, req, cpi) ==
    [IdleFrame EXCEPT !.st = "waiting", !.req = req, !.i = 0,
                      !.idx = PathIndex(build, cpi, 0),
                      !.tried = <<PathIndex(build, cpi, 0)>>]

\* The catch block and what follows it: lastError = e, then the next
\* iteration up to its await, or the throw after the loop.
AfterCatch(build, f, e, cpi) ==
    IF f.i + 1 < NumPaths
    THEN [f EXCEPT !.st = "waiting", !.i = f.i + 1,
                   !.idx = PathIndex(build, cpi, f.i + 1),
                   !.tried = Append(f.tried, PathIndex(build, cpi, f.i + 1)),
                   !.lastError = e]
    ELSE [f EXCEPT !.st = "failed", !.i = f.i + 1,
                   !.lastError = e,
                   !.thrown = e]

\* await fetch(PROXY_LIST[idx](targetUrl)) settles, in one of the ways the
\* network at hand allows: a response that is ok, one that is not, a rejection.
FetchOutcomes == {"ok", "http", "net"}

FetchSettleIn(p, outcomes) ==
    /\ fr[p].st = "waiting"
    /\ \E outcome \in outcomes :
         IF outcome = "ok"
         THEN /\ currentProxyIndex' =
                    IF env.build = "rotating" THEN fr[p].idx
                    ELSE currentProxyIndex
              /\ fr' = [fr EXCEPT ![p].st = "reading"]
         ELSE /\ fr' = [fr EXCEPT ![p] =
                           AfterCatch(env.build, fr[p],
                                      FetchError(outcome, fr[p].idx),
                                      currentProxyIndex)]
              /\ UNCHANGED currentProxyIndex
    /\ ret' = NoResult
    /\ UNCHANGED <<callVars, sgisVars, cacheVars, pageVars, now>>

FetchSettle(p) == FetchSettleIn(p, FetchOutcomes)

\* return await response.text() settles: the text, or a rejection that the
\* same catch block takes (currentProxyIndex is already set by then).
ReadOutcomes == {"text", "body"}

FetchReadIn(p, outcomes) ==
    /\ fr[p].st = "reading"
    /\ \E outcome \in outcomes :
         IF outcome = "text"
         THEN fr' = [fr EXCEPT ![p].st = "ok", ![p].okPath = fr[p].idx]
         ELSE fr' = [fr EXCEPT ![p] =
                        AfterCatch(env.build, fr[p],
                                   FetchError("body", fr[p].idx),
                                   currentProxyIndex)]
    /\ ret' = NoResult
    /\ UNCHANGED <<callVars, currentProxyIndex, sgisVars, cacheVars, pageVars, now>>

FetchRead(p) == FetchReadIn(p, ReadOutcomes)

FetchSettled(p) == fr[p].st \in {"ok", "failed"}

\* ------------------------------------------------------------ environment
\* Date.now() moves on between two steps of the program.
TickMs == TokenBufferMs

Tick ==
    /\ now < MaxTicks * TickMs
    /\ now' = now + TickMs
    /\ ret' = NoResult
    /\ UNCHANGED <<callVars, netVars, sgisVars, cacheVars, pageVars>>

\* --------------------------------------------------------------- the zones
\* searchAdminDistrict builds mainTrarNm from the three names and takes both
\* trarNo and adminCode from adongCd: two zones may share a label.
Labels == {"L1", "L2"}
Code1 == <<1, 1, 6, 8, 0, 6, 4, 0, 0, 0>>
Code2 == <<1, 1, 6, 8, 0, 6, 5, 5, 0, 0>>
Codes == {Code1, Code2}
Zones == { z \in [mainTrarNm : Labels, adminCode : Codes] :
             z.mainTrarNm = "L1" \/ z.adminCode = Code1 }
\* searchCoords, which every zone of a search carries as searchLat and
\* searchLon: the initial point, in whole degrees.
SearchCoords == [lat |-> 37, lon |-> 127]

\* ------------------------------------------------------------- geometries
\* A polygon is an array of rings, a ring an array of points; the result of a
\* resolution is a freshly allocated array, identified by obj.
\* GeoJSON geometries a boundary response can carry. coordinates of a Polygon:
\* its rings; of a MultiPolygon: its polygons. kind "null" is a feature without
\* geometry, "noarray" coordinates whose first ring is not an array (ring.map
\* throws).
RingA == <<<<953000, 1952000>>, <<954000, 1952000>>, <<954000, 1953000>>>>
RingB == <<<<960000, 1940000>>, <<961000, 1940000>>, <<961000, 1941000>>,
           <<960000, 1941000>>>>
RingHole == <<<<953500, 1952200>>, <<953600, 1952200>>, <<953600, 1952300>>>>

Geometries ==
    { [type |-> "Polygon", kind |-> "ok", coordinates |-> <<RingA>>],
      [type |-> "MultiPolygon", kind |-> "ok",
       coordinates |-> << <<RingA>>, <<RingB, RingHole>> >>],
      [type |-> "Polygon", kind |-> "ok", coordinates |-> <<>>],
      [type |-> "Polygon", kind |-> "noarray", coordinates |-> <<>>],
      [type |-> "Point", kind |-> "ok", coordinates |-> <<>>],
      [type |-> "none", kind |-> "null", coordinates |-> <<>>] }

\* proj4(PROJ_5179, PROJ_WGS84, p): the library's inverse transverse Mercator,
\* to whole degrees (rounded down), about the false origin x_0 = 1000000,
\* y_0 = 2000000 at lon_0 = 127.5, lat_0 = 38; a degree is some 90 km east
\* and some 111 km north there.
Proj4_5179(pt) ==
    << (11475000 + pt[1] - 1000000) \div 90000,
       (4218000 + pt[2] - 2000000) \div 111000 >>

\* proj4(PROJ_5174, 'EPSG:4326', p): the same about x_0 = 200000, y_0 = 500000
\* at lon_0 = 127.0029, lat_0 = 38 (the datum shift is below a degree).
Proj4_5174(pt) ==
    << (11430000 + pt[1] - 200000) \div 90000,
       (4218000 + pt[2] - 500000) \div 111000 >>

\* The forEach over a MultiPolygon's members: keep the member whose outer ring
\* is strictly longer than any before it.
RECURSIVE LargestMember(_, _, _, _)
LargestMember(polys, k, maxLen, coords) ==
    IF k > Len(polys) THEN coords
    ELSE IF Len(polys[k][1]) > maxLen
         THEN LargestMember(polys, k + 1, Len(polys[k][1]), polys[k])
         ELSE LargestMember(polys, k + 1, maxLen, coords)

\* coords as the geometry's type selects it; threw = a TypeError on the way.
SelectCoords(geometry) ==
    IF geometry.kind = "null" THEN [threw |-> TRUE, coords |-> <<>>]
    ELSE IF geometry.type = "Polygon"
         THEN [threw |-> geometry.kind = "noarray",
               coords |-> geometry.coordinates]
    ELSE IF geometry.type = "MultiPolygon"
         THEN [threw |-> \E k \in 1 .. Len(geometry.coordinates) :
                             Len(geometry.coordinates[k]) = 0,
               coords |-> IF \E k \in 1 .. Len(geometry.coordinates) :
                                 Len(geometry.coordinates[k]) = 0
                          THEN <<>>
                          ELSE LargestMember(geometry.coordinates, 1, 0, <<>>)]
    ELSE [threw |-> FALSE, coords |-> <<>>]

\* A mapping that hands the raw pairs on as they come when there is no library.
MapRingSgisUnswapped(ring, proj4Defined) ==
    [k \in 1 .. Len(ring) |->
        IF proj4Defined
        THEN << Proj4_5179(ring[k])[2], Proj4_5179(ring[k])[1] >>
        ELSE ring[k]]

\* ring.map(p => proj4 defined ? [lat, lon] of proj4(p) : [p[1], p[0]])
MapRingSgis(ring, proj4Defined) ==
    [k \in 1 .. Len(ring) |->
        IF proj4Defined
        THEN << Proj4_5179(ring[k])[2], Proj4_5179(ring[k])[1] >>
        ELSE << ring[k][2], ring[k][1] >>]

\* ------------------------------------------------------------ getSgisToken
\* The test without the buffer.
TokenValidNoBuffer(tok, expiry, t) == tok # NoToken /\ t < expiry

\* sgisAccessToken && Date.now() < tokenExpiry - 300000
TokenValid(tok, expiry, t) == tok # NoToken /\ t < expiry - TokenBufferMs

\* parseInt(data.result.accessTimeout, 10) || 14400000
Timeouts == { [num |-> FALSE, ms |-> 0], [num |-> TRUE, ms |-> 0],
              [num |-> TRUE, ms |-> 2 * TokenBufferMs] }
TimeoutMs(accessTimeout) ==
    IF accessTimeout.num /\ accessTimeout.ms # 0
    THEN accessTimeout.ms ELSE DefaultTimeoutMs

\* An expiry that takes the provider's figure as it comes.
NewExpiryNoDefault(tResponse, accessTimeout) == tResponse + accessTimeout.ms

\* An expiry left as it was when the token is replaced.
NewExpiryStale(tResponse, accessTimeout) == tokenExpiry

\* tokenExpiry = Date.now() + timeoutMs, evaluated when the response is in.
NewExpiry(tResponse, accessTimeout) == tResponse + TimeoutMs(accessTimeout)

\* !SGIS_ID || !SGIS_SECRET || SGIS_ID.startsWith("YOUR")
SgisKeyMissing(e) == ~e.sgisKey

\* The authentication response: not JSON, an error code, or a token.
AuthBodies ==
    { [kind |-> "nonjson", timeout |-> [num |-> FALSE, ms |-> 0]],
      [kind |-> "errCd", timeout |-> [num |-> FALSE, ms |-> 0]] }
    \cup { [kind |-> "ok", timeout |-> t] : t \in Timeouts }

\* --------------------------------------------------- fetchLocalAdminPolygon
IdleLoc == [zone |-> NoZone, token |-> NoToken, admCd |-> "none",
            reqs |-> <<>>]

Result(l, kind, value, why, hit) ==
    [op |-> "resolve", kind |-> kind, value |-> value,
     why |-> why, hit |-> hit, reqs |-> l.reqs, zone |-> l.zone,
     token |-> l.token]

\* A catch block that logs and throws again.
CaughtRethrown(l, why) == Result(l, "raised", EmptyPolygon, why, FALSE)

\* The catch block: console.warn, then the return [] after it.
Caught(l, why) == Result(l, "returned", EmptyPolygon, why, FALSE)

\* An explicit return [] inside the try, or the one after it.
ReturnEmpty(l, why) == Result(l, "returned", EmptyPolygon, why, FALSE)

\* The call of p ends: its frames are gone, its caller sees r.
Finish(p, r) ==
    /\ pc' = [pc EXCEPT ![p] = "idle"]
    /\ ret' = r
    /\ nRet' = nRet + 1
    /\ loc' = [loc EXCEPT ![p] = IdleLoc]
    /\ fr' = [fr EXCEPT ![p] = IdleFrame]

\* Issue the next request of the call and suspend on it.
Issue(p, label, req, l) ==
    /\ pc' = [pc EXCEPT ![p] = label]
    /\ loc' = [loc EXCEPT ![p] = [l EXCEPT !.reqs = Append(l.reqs, req)]]
    /\ fr' = [fr EXCEPT ![p] = fetchWithRetry(env.build, req, currentProxyIndex)]
    /\ ret' = NoResult
    /\ UNCHANGED nRet

\* polygonCache.has(zone.mainTrarNm)
CacheHas(cache, zone) == zone.mainTrarNm \in DOMAIN cache
\* polygonCache.get(zone.mainTrarNm)
CacheGet(cache, zone) == cache[zone.mainTrarNm]
\* A set under the zone's adminCode instead of its label.
CacheSetByCode(cache, zone, result) ==
    [l \in DOMAIN cache \cup {ToString(zone.adminCode)} |->
        IF l = ToString(zone.adminCode) THEN result ELSE cache[l]]

\* A set that keeps the newest entry only.
CacheSetEvicting(cache, zone, result) ==
    [l \in {zone.mainTrarNm} |-> result]

\* polygonCache.set(zone.mainTrarNm, result)
CacheSet(cache, zone, result) ==
    [l \in DOMAIN cache \cup {zone.mainTrarNm} |->
        IF l = zone.mainTrarNm THEN result ELSE cache[l]]

\* fetchLocalAdminPolygon(zone) up to its first await: the cache look-up,
\* then getSgisToken up to its await (or its cached token, or its throw).
ResolveCall(p) ==
    /\ env.build = "rotating"
    /\ pc[p] = "idle"
    /\ nCalls < MaxCalls
    /\ nCalls' = nCalls + 1
    /\ \E z \in Zones :
        LET l0 == [IdleLoc EXCEPT !.zone = z] IN
        IF CacheHas(polygonCache, z)
        THEN Finish(p, Result(l0, "returned", CacheGet(polygonCache, z),
                              "cached", TRUE))
        ELSE IF TokenValid(sgisAccessToken, tokenExpiry, now)
        THEN Issue(p, "geo", "geocode", [l0 EXCEPT !.token = sgisAccessToken])
        ELSE IF SgisKeyMissing(env)
        THEN Finish(p, Caught(l0, "nokey"))
        ELSE Issue(p, "auth", "auth", l0)
    /\ UNCHANGED <<currentProxyIndex, sgisVars, cacheVars, pageVars, now>>

\* getSgisToken after its await, and on success the geocode request.
AuthSettled(p) ==
    /\ pc[p] = "auth"
    /\ FetchSettled(p)
    /\ IF fr[p].st = "failed"
       THEN /\ Finish(p, Caught(loc[p], "auth_net"))
            /\ UNCHANGED sgisVars
       ELSE \E body \in AuthBodies :
            IF body.kind = "ok"
            THEN /\ sgisAccessToken' = nAuth + 1
                 /\ nAuth' = nAuth + 1
                 /\ tokenExpiry' = NewExpiry(now, body.timeout)
                 /\ Issue(p, "geo", "geocode",
                          [loc[p] EXCEPT !.token = nAuth + 1])
            ELSE /\ Finish(p, Caught(loc[p], "auth_" \o body.kind))
                 /\ UNCHANGED sgisVars
    /\ UNCHANGED <<currentProxyIndex, cacheVars, pageVars, now, nCalls>>

\* The two years the other way round.
BoundaryRequestSwapped(attempt) ==
    IF attempt = 1 THEN "boundary_prev" ELSE "boundary_cur"

\* The current year both times.
BoundaryRequestSameYear(attempt) == "boundary_cur"

\* The boundary request of the first attempt asks for the current year, the
\* one of the second for the year before.
BoundaryRequest(attempt) ==
    IF attempt = 1 THEN "boundary_cur" ELSE "boundary_prev"

\* The geocode response: not JSON, errCd # 0 or no resultdata, or an adm_cd.
GeoBodies == {"nonjson", "noresult", "ok"}
\* The boundary response: not JSON, or a feature collection.
BoundBodies ==
    { [kind |-> "nonjson", features |-> <<>>],
      [kind |-> "json", features |-> <<>>] }
    \cup { [kind |-> "json", features |-> <<[geometry |-> g]>>] :
            g \in Geometries }

\* The geocode response is in; on an adm_cd, the boundary request for the
\* current year.
GeoSettled(p) ==
    /\ pc[p] = "geo"
    /\ FetchSettled(p)
    /\ IF fr[p].st = "failed"
       THEN Finish(p, Caught(loc[p], "geo_net"))
       ELSE \E body \in GeoBodies :
            IF body = "ok"
            THEN Issue(p, "bound1", BoundaryRequest(1),
                       [loc[p] EXCEPT !.admCd = "adm"])
            ELSE IF body = "noresult"
            THEN Finish(p, ReturnEmpty(loc[p], "geo_noresult"))
            ELSE Finish(p, Caught(loc[p], "geo_nonjson"))
    /\ UNCHANGED <<currentProxyIndex, sgisVars, cacheVars, pageVars, now, nCalls>>

\* A resolution that stores the empty polygon of a feature without rings.
FromFeaturesStoringEmpty(p, features) ==
    LET sel == SelectCoords(features[1].geometry)
        result == [obj |-> nObj + 1,
                   rings |-> <<MapRingSgis(sel.coords[1], env.proj4)>>]
    IN  IF sel.threw
        THEN /\ Finish(p, Caught(loc[p], "geometry"))
             /\ UNCHANGED cacheVars
        ELSE IF Len(sel.coords) > 0
        THEN /\ polygonCache' = CacheSet(polygonCache, loc[p].zone, result)
             /\ nObj' = nObj + 1
             /\ UNCHANGED cachedFeatures
             /\ firstPut' =
                    IF loc[p].zone.mainTrarNm \in DOMAIN firstPut THEN firstPut
                    ELSE [l \in DOMAIN firstPut \cup {loc[p].zone.mainTrarNm} |->
                            IF l = loc[p].zone.mainTrarNm
                            THEN [zone |-> loc[p].zone, polygon |-> result]
                            ELSE firstPut[l]]
             /\ lastPut' =
                    [l \in DOMAIN lastPut \cup {loc[p].zone.mainTrarNm} |->
                        IF l = loc[p].zone.mainTrarNm THEN result
                        ELSE lastPut[l]]
             /\ Finish(p, Result(loc[p], "returned", result, "ok", FALSE))
        ELSE /\ polygonCache' = CacheSet(polygonCache, loc[p].zone, EmptyPolygon)
             /\ UNCHANGED <<cachedFeatures, nObj, firstPut, lastPut>>
             /\ Finish(p, ReturnEmpty(loc[p], "nocoords"))

\* if (boundData.features && boundData.features.length > 0) { ... } with the
\* return [] after the try: the ring of the first feature, stored and returned.
FromFeatures(p, features) ==
    LET sel == SelectCoords(features[1].geometry)
        result == [obj |-> nObj + 1,
                   rings |-> <<MapRingSgis(sel.coords[1], env.proj4)>>]
    IN  IF sel.threw
        THEN /\ Finish(p, Caught(loc[p], "geometry"))
             /\ UNCHANGED cacheVars
        ELSE IF Len(sel.coords) > 0
        THEN /\ polygonCache' = CacheSet(polygonCache, loc[p].zone, result)
             /\ nObj' = nObj + 1
             /\ UNCHANGED cachedFeatures
             /\ firstPut' =
                    IF loc[p].zone.mainTrarNm \in DOMAIN firstPut THEN firstPut
                    ELSE [l \in DOMAIN firstPut \cup {loc[p].zone.mainTrarNm} |->
                            IF l = loc[p].zone.mainTrarNm
                            THEN [zone |-> loc[p].zone, polygon |-> result]
                            ELSE firstPut[l]]
             /\ lastPut' =
                    [l \in DOMAIN lastPut \cup {loc[p].zone.mainTrarNm} |->
                        IF l = loc[p].zone.mainTrarNm THEN result
                        ELSE lastPut[l]]
             /\ Finish(p, Result(loc[p], "returned", result, "ok", FALSE))
        ELSE /\ Finish(p, ReturnEmpty(loc[p], "nocoords"))
             /\ UNCHANGED cacheVars

\* The boundary response for the current year is in; with no features, the
\* request for the previous year.
Bound1Settled(p) ==
    /\ pc[p] = "bound1"
    /\ FetchSettled(p)
    /\ IF fr[p].st = "failed"
       THEN /\ Finish(p, Caught(loc[p], "bound_net"))
            /\ UNCHANGED cacheVars
       ELSE \E body \in BoundBodies :
            IF body.kind = "nonjson"
            THEN /\ Finish(p, Caught(loc[p], "bound_nonjson"))
                 /\ UNCHANGED cacheVars
            ELSE IF Len(body.features) = 0
            THEN /\ Issue(p, "bound2", BoundaryRequest(2), loc[p])
                 /\ UNCHANGED cacheVars
            ELSE FromFeatures(p, body.features)
    /\ UNCHANGED <<currentProxyIndex, sgisVars, pageVars, now, nCalls>>

\* The boundary response for the previous year is in.
Bound2Settled(p) ==
    /\ pc[p] = "bound2"
    /\ FetchSettled(p)
    /\ IF fr[p].st = "failed"
       THEN /\ Finish(p, Caught(loc[p], "bound_net"))
            /\ UNCHANGED cacheVars
       ELSE \E body \in BoundBodies :
            IF body.kind = "nonjson"
            THEN /\ Finish(p, Caught(loc[p], "bound_nonjson"))
                 /\ UNCHANGED cacheVars
            ELSE IF Len(body.features) = 0
            THEN /\ Finish(p, ReturnEmpty(loc[p], "nofeatures"))
                 /\ UNCHANGED cacheVars
            ELSE FromFeatures(p, body.features)
    /\ UNCHANGED <<currentProxyIndex, sgisVars, pageVars, now, nCalls>>

\* ------------------------- fetchLocalAdminPolygon, first version (zones.zip)
\* zone.mainTrarNm.split(" "): "Sido Sigungu Dong".
NameParts(label) ==
    IF label = "L1" THEN <<"S", "G", "D1">> ELSE <<"S", "G", "D2">>
\* nameParts.length >= 3 ? nameParts[nameParts.length - 1] : ""
DongName(label) ==
    IF Len(NameParts(label)) >= 3
    THEN NameParts(label)[Len(NameParts(label))] ELSE ""

\* adminCode.substring(0, 8)
Substring8(code) == SubSeq(code, 1, IF Len(code) < 8 THEN Len(code) ELSE 8)
\* fileCode.startsWith(prefix)
StartsWith(code, prefix) ==
    /\ Len(prefix) <= Len(code)
    /\ SubSeq(code, 1, Len(prefix)) = prefix

\* Strategy A of the find: the feature's code against the zone's.
CodeMatches(f, zone) ==
    /\ f.code # <<>>
    /\ \/ f.code = zone.adminCode
       \/ f.code = Substring8(zone.adminCode)
       \/ StartsWith(f.code, Substring8(zone.adminCode))
\* Strategy B: the feature's name against the zone's dong.
NameMatches(f, zone) == f.name = DongName(zone.mainTrarNm)

\* cachedFeatures.find by code: the index of the first match, or 0 for none.
FindByCode(features, zone) ==
    IF \E k \in 1 .. Len(features) : CodeMatches(features[k], zone)
    THEN CHOOSE k \in 1 .. Len(features) :
            /\ CodeMatches(features[k], zone)
            /\ \A j \in 1 .. (k - 1) : ~CodeMatches(features[j], zone)
    ELSE 0
\* cachedFeatures.find by name.
FindByName(features, zone) ==
    IF \E k \in 1 .. Len(features) : NameMatches(features[k], zone)
    THEN CHOOSE k \in 1 .. Len(features) :
            /\ NameMatches(features[k], zone)
            /\ \A j \in 1 .. (k - 1) : ~NameMatches(features[j], zone)
    ELSE 0

\* The later version of the find: a feature whose code has two digits or more
\* must start with the zone's first two; then the name against the zone's last
\* name part.
SidoNameMatches(f, zone) ==
    /\ ~(Len(f.code) >= 2 /\ ~StartsWith(f.code, SubSeq(zone.adminCode, 1, 2)))
    /\ f.name = NameParts(zone.mainTrarNm)[Len(NameParts(zone.mainTrarNm))]
\* cachedFeatures.find of the later version; its second pass compares the
\* names without blanks, which the names here do not hold, so that it finds
\* what the first pass finds.
FindBySidoName(features, zone) ==
    IF \E k \in 1 .. Len(features) : SidoNameMatches(features[k], zone)
    THEN CHOOSE k \in 1 .. Len(features) :
            /\ SidoNameMatches(features[k], zone)
            /\ \A j \in 1 .. (k - 1) : ~SidoNameMatches(features[j], zone)
    ELSE 0

\* The feature found: by code, and when none and the zone has a dong name, by
\* name; in the later version by province code and name. 0 for none.
FindFeature(build, features, zone) ==
    IF build = "plainfilter" THEN FindBySidoName(features, zone)
    ELSE IF FindByCode(features, zone) # 0 THEN FindByCode(features, zone)
    ELSE IF DongName(zone.mainTrarNm) # "" THEN FindByName(features, zone)
    ELSE 0

\* Rings as the shapefile of a build may carry them: degrees, UTM-K metres
\* (RingA, RingHole), metres of the older grid.
RingDeg == <<<<127, 37>>, <<128, 37>>, <<128, 38>>>>
RingOld == <<<<200500, 450000>>, <<201500, 450000>>, <<201500, 451000>>>>
\* A ring whose first components are within 180 and second ones are not, and
\* a ring in degrees far from the searched point.
RingTall == <<<<127, 450000>>, <<128, 450000>>, <<128, 451000>>>>
RingFar == <<<<129, 35>>, <<130, 35>>, <<130, 36>>>>
\* A ring whose first components are below -180.
RingWest == <<<<-200500, 37>>, <<-199500, 37>>, <<-199500, 38>>>>

LocalGeometries ==
    { [type |-> "Polygon", kind |-> "ok", coordinates |-> <<RingDeg>>],
      [type |-> "Polygon", kind |-> "ok", coordinates |-> <<RingA, RingHole>>],
      [type |-> "Polygon", kind |-> "ok", coordinates |-> <<RingTall>>],
      [type |-> "Polygon", kind |-> "ok", coordinates |-> <<RingWest>>],
      [type |-> "MultiPolygon", kind |-> "ok",
       coordinates |-> << <<RingOld>>, <<RingB>> >>],
      [type |-> "MultiPolygon", kind |-> "ok", coordinates |-> <<>>],
      [type |-> "Polygon", kind |-> "ok", coordinates |-> << <<>> >>],
      [type |-> "Polygon", kind |-> "ok", coordinates |-> <<>>],
      [type |-> "Point", kind |-> "ok", coordinates |-> <<>>],
      [type |-> "none", kind |-> "null", coordinates |-> <<>>] }

\* coords of the feature: the rings of a Polygon, those of the first member
\* of a MultiPolygon; threw = a TypeError up to the read of the test point.
SelectCoordsLocal(geometry) ==
    IF geometry.kind = "null" THEN [threw |-> TRUE, coords |-> <<>>]
    ELSE IF geometry.type = "Polygon"
         THEN [threw |-> /\ Len(geometry.coordinates) > 0
                         /\ Len(geometry.coordinates[1]) = 0,
               coords |-> geometry.coordinates]
    ELSE IF geometry.type = "MultiPolygon"
         THEN IF Len(geometry.coordinates) = 0
              THEN [threw |-> TRUE, coords |-> <<>>]
              ELSE [threw |-> /\ Len(geometry.coordinates[1]) > 0
                              /\ Len(geometry.coordinates[1][1]) = 0,
                    coords |-> geometry.coordinates[1]]
    ELSE [threw |-> FALSE, coords |-> <<>>]

\* x > 180 || y > 90 on the first point, x > 180 alone in the later version;
\* x < 600000 takes the older grid.
NeedsProj(build, testPoint) ==
    IF build = "plainfilter" THEN testPoint[1] > 180
    ELSE testPoint[1] > 180 \/ testPoint[2] > 90
SrcProjModernOnly(testPoint) == "5179"
SrcProj(testPoint) == IF testPoint[1] < 600000 THEN "5174" ELSE "5179"

\* coords.map(ring => ring.map(c => ...)): [lat, lon] of the projection, or
\* the pair swapped.
MapRingsLocal(build, coords, proj4Defined) ==
    LET testPoint == coords[1][1]
        Point(c) ==
            IF NeedsProj(build, testPoint) /\ proj4Defined
            THEN IF SrcProj(testPoint) = "5174"
                 THEN << Proj4_5174(c)[2], Proj4_5174(c)[1] >>
                 ELSE << Proj4_5179(c)[2], Proj4_5179(c)[1] >>
            ELSE << c[2], c[1] >>
    IN  [r \in 1 .. Len(coords) |->
            [k \in 1 .. Len(coords[r]) |-> Point(coords[r][k])]]

\* What zones.zip holds: one district with a code, one without; or two
\* districts of one name, in either order, the far one with no code or with
\* the code of another province; or none of the zones asked for; or no
\* feature at all.
Feature(code, name, geometry) ==
    [code |-> code, name |-> name, geometry |-> geometry]
DegPolygon(ring) ==
    [type |-> "Polygon", kind |-> "ok", coordinates |-> <<ring>>]
Twins ==
    { << Feature(<<>>, "D1", DegPolygon(RingFar)),
         Feature(<<>>, "D1", DegPolygon(RingDeg)) >>,
      << Feature(<<>>, "D1", DegPolygon(RingDeg)),
         Feature(<<>>, "D1", DegPolygon(RingFar)) >>,
      << Feature(<<2, 6, 1, 1, 0, 5, 1, 0>>, "D1", DegPolygon(RingFar)),
         Feature(<<>>, "D1", DegPolygon(RingDeg)) >> }
Datasets ==
    Twins \cup
    { << Feature(Substring8(Code1), "D1", g),
         Feature(<<>>, "D2",
                 [type |-> "Polygon", kind |-> "ok",
                  coordinates |-> <<RingDeg>>]) >> : g \in LocalGeometries }
    \cup { << Feature(<<9, 9>>, "D7",
                      [type |-> "Polygon", kind |-> "ok",
                       coordinates |-> <<RingDeg>>]) >>,
           <<>> }

\* await window.shp('/zones.zip'): a rejection, a FeatureCollection (with or
\* without features), or an array of them.
ShpOutcomes ==
    { [kind |-> "reject", parts |-> <<>>],
      [kind |-> "nofeatures", parts |-> <<>>] }
    \cup { [kind |-> "collection", parts |-> <<d>>] : d \in Datasets }
    \cup { [kind |-> "array", parts |-> << <<d[1]>>, Tail(d) >>] :
            d \in {e \in Datasets : Len(e) > 1} }

\* geojson.flatMap(g => g.features)
RECURSIVE FlatMap(_)
FlatMap(parts) ==
    IF Len(parts) = 0 THEN <<>> ELSE Head(parts) \o FlatMap(Tail(parts))

\* From the features in hand to the return: steps 2 and 3 of the function.
LocalFinish(p, l, features) ==
    LET k == FindFeature(env.build, features, l.zone)
        sel == SelectCoordsLocal(features[k].geometry)
        result == [obj |-> nObj + 1,
                   rings |-> MapRingsLocal(env.build, sel.coords, env.proj4)]
    IN  IF k = 0
        THEN /\ Finish(p, ReturnEmpty(l, "notfound"))
             /\ nObj' = nObj
        ELSE IF sel.threw
        THEN /\ Finish(p, Caught(l, "geometry"))
             /\ nObj' = nObj
        ELSE IF Len(sel.coords) > 0
        THEN /\ Finish(p, Result(l, "returned", result, "ok", FALSE))
             /\ nObj' = nObj + 1
        ELSE /\ Finish(p, ReturnEmpty(l, "nocoords"))
             /\ nObj' = nObj

\* fetchLocalAdminPolygon(zone) of the versions reading zones.zip, up to the
\* await of the load, or with the features cached to its return.
LocalCall(p) ==
    /\ env.build \in {"shapefile", "plainfilter"}
    /\ pc[p] = "idle"
    /\ nCalls < MaxCalls
    /\ nCalls' = nCalls + 1
    /\ \E z \in Zones :
        LET l0 == [IdleLoc EXCEPT !.zone = z] IN
        IF cachedFeatures.loaded
        THEN LocalFinish(p, l0, cachedFeatures.features)
        ELSE IF ~env.shp
        THEN /\ Finish(p, ReturnEmpty(l0, "noshp"))
             /\ nObj' = nObj
        ELSE /\ pc' = [pc EXCEPT ![p] = "load"]
             /\ loc' = [loc EXCEPT ![p] =
                           [l0 EXCEPT !.reqs = <<"load_dataset">>]]
             /\ ret' = NoResult
             /\ UNCHANGED <<fr, nRet, nObj>>
    /\ UNCHANGED <<currentProxyIndex, sgisVars, polygonCache, cachedFeatures,
                   firstPut, lastPut, pageVars, now>>

\* The load has settled.
LocalLoaded(p) ==
    /\ pc[p] = "load"
    /\ \E outcome \in ShpOutcomes :
        IF outcome.kind = "reject"
        THEN /\ Finish(p, Caught(loc[p], "load"))
             /\ UNCHANGED <<cachedFeatures, nObj>>
        ELSE IF outcome.kind = "nofeatures"
        THEN /\ Finish(p, ReturnEmpty(loc[p], "nofeatures"))
             /\ cachedFeatures' = NoFeatures
             /\ nObj' = nObj
        ELSE /\ cachedFeatures' =
                    [loaded |-> TRUE, features |-> FlatMap(outcome.parts)]
             /\ LocalFinish(p, loc[p], FlatMap(outcome.parts))
    /\ UNCHANGED <<nCalls, currentProxyIndex, sgisVars, polygonCache,
                   firstPut, lastPut, pageVars, now>>

Init ==
    /\ pc = [p \in Procs |-> "idle"]
    /\ loc = [p \in Procs |-> IdleLoc]
    /\ ret = NoResult
    /\ fr = [p \in Procs |-> IdleFrame]
    /\ currentProxyIndex = 0
    /\ sgisAccessToken = NoToken
    /\ tokenExpiry = 0
    /\ polygonCache = <<>>
    /\ cachedFeatures = NoFeatures
    /\ env \in { e \in [build : {"rotating", "shapefile", "plainfilter"},
                         sgisKey : BOOLEAN, proj4 : BOOLEAN, shp : BOOLEAN,
                         vworldKey : {TRUE}, dataKey : {TRUE}] :
                    /\ e.build = "rotating" => e.shp
                    /\ e.build # "rotating" => e.sgisKey }
    /\ app = NoApp
    /\ now = 0
    /\ nAuth = 0
    /\ nObj = 0
    /\ firstPut = <<>>
    /\ lastPut = <<>>
    /\ nCalls = 0
    /\ nRet = 0

\* One caller at a time, with the clock running.
Next ==
    \/ Tick
    \/ \E p \in Solo :
        \/ ResolveCall(p)
        \/ FetchSettle(p)
        \/ FetchRead(p)
        \/ AuthSettled(p)
        \/ GeoSettled(p)
        \/ Bound1Settled(p)
        \/ Bound2Settled(p)
        \/ LocalCall(p)
        \/ LocalLoaded(p)

Spec == Init /\ [][Next]_vars

\* Overlapping calls, as Promise.all over the found zones issues them, within
\* one tick of the clock, in a build with the key, on a page with proj4, over a network whose first
\* path answers every request.
ConcInit ==
    /\ Init
    /\ env.build = "rotating"
    /\ env.sgisKey
    /\ env.proj4

ConcNext ==
    \E p \in Procs :
        \/ ResolveCall(p)
        \/ FetchSettleIn(p, {"ok"})
        \/ FetchReadIn(p, {"text"})
        \/ AuthSettled(p)
        \/ GeoSettled(p)
        \/ Bound1Settled(p)
        \/ Bound2Settled(p)

ConcSpec == ConcInit /\ [][ConcNext]_vars

\* Overlapping calls of the versions reading zones.zip, as Promise.all over
\* the found zones issues them.
LocalConcInit ==
    /\ Init
    /\ env.build \in {"shapefile", "plainfilter"}
    /\ env.shp
    /\ env.proj4

LocalConcNext ==
    \E p \in Procs :
        \/ LocalCall(p)
        \/ LocalLoaded(p)

LocalConcSpec == LocalConcInit /\ [][LocalConcNext]_vars

\* ------------------------------------------------- callers of fetchWithRetry
\* A direct caller (a page fetch of fetchStores, an endpoint of fetchSbizData).
CallFetch(p) ==
    /\ pc[p] = "idle"
    /\ nCalls < MaxCalls
    /\ nCalls' = nCalls + 1
    /\ Issue(p, "fetching", "raw", IdleLoc)
    /\ UNCHANGED <<currentProxyIndex, sgisVars, cacheVars, pageVars, now>>

\* The caller takes the text or the rejection.
ReturnFetch(p) ==
    /\ pc[p] = "fetching"
    /\ FetchSettled(p)
    /\ Finish(p, [NoResult EXCEPT !.op = "fetch",
                     !.kind = IF fr[p].st = "ok" THEN "returned" ELSE "raised"])
    /\ UNCHANGED <<nCalls, currentProxyIndex, sgisVars, cacheVars, pageVars, now>>

FetchInit ==
    /\ pc = [p \in Procs |-> "idle"]
    /\ loc = [p \in Procs |-> IdleLoc]
    /\ ret = NoResult
    /\ fr = [p \in Procs |-> IdleFrame]
    /\ currentProxyIndex = 0
    /\ sgisAccessToken = NoToken
    /\ tokenExpiry = 0
    /\ polygonCache = <<>>
    /\ cachedFeatures = NoFeatures
    /\ env \in [build : {"rotating", "shapefile"}, sgisKey : {TRUE},
                proj4 : {TRUE}, shp : {TRUE},
                vworldKey : {TRUE}, dataKey : {TRUE}]
    /\ app = NoApp
    /\ now = 0
    /\ nAuth = 0
    /\ nObj = 0
    /\ firstPut = <<>>
    /\ lastPut = <<>>
    /\ nCalls = 0
    /\ nRet = 0

FetchNext ==
    \E p \in Procs :
        \/ CallFetch(p)
        \/ FetchSettle(p)
        \/ FetchRead(p)
        \/ ReturnFetch(p)

FetchSpec == FetchInit /\ [][FetchNext]_vars

\* The calls one after another.
FetchSoloNext ==
    \E p \in Solo :
        \/ CallFetch(p)
        \/ FetchSettle(p)
        \/ FetchRead(p)
        \/ ReturnFetch(p)

FetchSoloSpec == FetchInit /\ [][FetchSoloNext]_vars

\* ------------------------------------------------------------ searchAddress
\* No test of the key.
VworldKeyNeverMissing(e) == FALSE

\* !VWORLD_KEY || VWORLD_KEY.startsWith("YOUR")
VworldKeyMissing(e) == ~e.vworldKey

\* runSearch("ADDRESS", "road"), then ("ADDRESS", "parcel"), then ("PLACE").
SearchOrder == <<"road", "parcel", "place">>
SearchType(category) == IF category = "place" THEN "PLACE" ELSE "ADDRESS"

\* What fetchJsonp can bring for one attempt: status OK with items, status OK
\* without, status NOT_FOUND, status ERROR with its error.text, data without
\* a response member, or the script failing to load.
AddrItem(category, k) == [category |-> category, k |-> k]
AddrResponses(category) ==
    { [kind |-> "items", items |-> <<AddrItem(category, 1)>>],
      [kind |-> "items",
       items |-> <<AddrItem(category, 1), AddrItem(category, 2)>>],
      [kind |-> "ok_empty", items |-> <<>>],
      [kind |-> "not_found", items |-> <<>>],
      [kind |-> "error", items |-> <<>>],
      [kind |-> "malformed", items |-> <<>>],
      [kind |-> "network", items |-> <<>>] }

\* The last item instead of the first.
FirstItemLast(items) == items[Len(items)]

\* data.response.result.items[0]
FirstItem(items) == items[1]

\* A runSearch that records nothing.
DiagnosticsNone(searchType, resp) == <<>>

\* What runSearch pushes to errorDetails for a response without items.
Diagnostics(searchType, resp) ==
    IF resp.kind \in {"not_found", "items"} THEN <<>>
    ELSE IF resp.kind = "ok_empty" THEN << [type |-> searchType, text |-> "OK"] >>
    ELSE IF resp.kind = "error"
         THEN << [type |-> searchType, text |-> "error.text"] >>
    ELSE << [type |-> searchType, text |-> "Network Error"] >>

\* The Error thrown after the third attempt.
NotFoundMessage(build, errorDetails) ==
    IF build = "standard"
    THEN [text |-> "no_result", details |-> <<>>]
    ELSE [text |-> "search_failed", details |-> errorDetails]

AddrResult(l, kind, why, item, message) ==
    [op |-> "address", kind |-> kind, why |-> why, item |-> item,
     message |-> message, reqs |-> l.reqs, outs |-> l.outs,
     errorDetails |-> l.errorDetails]

NoItem == [category |-> "none", k |-> 0]
NoMessage == [text |-> "none", details |-> <<>>]
AddrLoc == [reqs |-> <<>>, outs |-> <<>>, errorDetails |-> <<>>]

\* searchAddress(address) up to the await of its first runSearch.
AddrCall(p) ==
    /\ pc[p] = "idle"
    /\ nCalls < MaxCalls
    /\ nCalls' = nCalls + 1
    /\ IF VworldKeyMissing(env)
       THEN /\ pc' = pc
            /\ loc' = loc
            /\ ret' = AddrResult(AddrLoc, "raised", "auth", NoItem, NoMessage)
            /\ nRet' = nRet + 1
       ELSE /\ pc' = [pc EXCEPT ![p] = "addr"]
            /\ loc' = [loc EXCEPT ![p] =
                          [AddrLoc EXCEPT !.reqs = <<SearchOrder[1]>>]]
            /\ ret' = NoResult
            /\ nRet' = nRet
    /\ UNCHANGED <<netVars, sgisVars, cacheVars, pageVars, now>>

\* The fetchJsonp of the running attempt settles: the rest of runSearch, then
\* searchAddress up to its next await, its return or its throw.
AddrSettled(p) ==
    /\ pc[p] = "addr"
    /\ LET n == Len(loc[p].reqs)
           category == loc[p].reqs[n]
       IN \E resp \in AddrResponses(category) :
          LET l1 == [loc[p] EXCEPT
                       !.outs = Append(@, resp.kind),
                       !.errorDetails =
                           @ \o Diagnostics(SearchType(category), resp)]
          IN  IF resp.kind = "items"
              THEN /\ pc' = [pc EXCEPT ![p] = "idle"]
                   /\ loc' = [loc EXCEPT ![p] = IdleLoc]
                   /\ ret' = AddrResult(l1, "returned", "ok",
                                        FirstItem(resp.items), NoMessage)
                   /\ nRet' = nRet + 1
              ELSE IF n < Len(SearchOrder)
              THEN /\ pc' = pc
                   /\ loc' = [loc EXCEPT ![p] =
                                 [l1 EXCEPT !.reqs =
                                     Append(@, SearchOrder[n + 1])]]
                   /\ ret' = NoResult
                   /\ nRet' = nRet
              ELSE /\ pc' = [pc EXCEPT ![p] = "idle"]
                   /\ loc' = [loc EXCEPT ![p] = IdleLoc]
                   /\ ret' = AddrResult(l1, "raised", "not_found", NoItem,
                                NotFoundMessage(env.build, l1.errorDetails))
                   /\ nRet' = nRet + 1
    /\ UNCHANGED <<nCalls, netVars, sgisVars, cacheVars, pageVars, now>>

AddrInit ==
    /\ pc = [p \in Procs |-> "idle"]
    /\ loc = [p \in Procs |-> IdleLoc]
    /\ ret = NoResult
    /\ fr = [p \in Procs |-> IdleFrame]
    /\ currentProxyIndex = 0
    /\ sgisAccessToken = NoToken
    /\ tokenExpiry = 0
    /\ polygonCache = <<>>
    /\ cachedFeatures = NoFeatures
    /\ env \in [build : {"rotating", "standard"}, sgisKey : {TRUE},
                proj4 : {TRUE}, shp : {TRUE},
                vworldKey : BOOLEAN, dataKey : {TRUE}]
    /\ app = NoApp
    /\ now = 0
    /\ nAuth = 0
    /\ nObj = 0
    /\ firstPut = <<>>
    /\ lastPut = <<>>
    /\ nCalls = 0
    /\ nRet = 0

AddrNext ==
    \E p \in Solo :
        \/ AddrCall(p)
        \/ AddrSettled(p)

AddrSpec == AddrInit /\ [][AddrNext]_vars

\* -------------------------------------------------------------- searchZones
\* !DATA_API_KEY || DATA_API_KEY.startsWith("YOUR")
DataKeyMissing(e) == ~e.dataKey

\* The text of the provider's answer: JSON whose body.items is absent, an
\* array or a single object; XML (an error document, or item elements); or
\* text that is neither.
ItemA == [id |-> "z1", type |-> "none"]
ItemB == [id |-> "z2", type |-> "none"]
ZoneBodies ==
    { [fmt |-> "json", shape |-> "absent", items |-> <<>>],
      [fmt |-> "json", shape |-> "array", items |-> <<>>],
      [fmt |-> "json", shape |-> "array", items |-> <<ItemA>>],
      [fmt |-> "json", shape |-> "array", items |-> <<ItemA, ItemB>>],
      [fmt |-> "json", shape |-> "object", items |-> <<ItemA>>],
      [fmt |-> "xml", shape |-> "error", items |-> <<>>],
      [fmt |-> "xml", shape |-> "elements", items |-> <<ItemA>>],
      [fmt |-> "text", shape |-> "none", items |-> <<>>] }

\* items.map(item => ({ ...item, type: 'trade' }))
AsTrade(items) == [k \in 1 .. Len(items) |-> [items[k] EXCEPT !.type = "trade"]]

\* From the text to zones, or to the throw taken on the way: the check for
\* an XML answer, JSON.parse, and the reading of body.items. The first
\* version has no XML check, maps body.items as it finds it, and in its
\* catch block reads the text as XML for item elements.
ParseZones(build, body) ==
    IF build = "shapefile"
    THEN IF body.fmt = "json" /\ body.shape # "object"
         THEN [threw |-> "none", zones |-> AsTrade(body.items)]
         ELSE IF body.fmt = "xml"
         THEN [threw |-> "none", zones |-> AsTrade(body.items)]
         ELSE [threw |-> "none", zones |-> <<>>]
    ELSE IF body.fmt = "xml" THEN [threw |-> "xml_error", zones |-> <<>>]
    ELSE IF body.fmt = "text" THEN [threw |-> "parse", zones |-> <<>>]
    ELSE [threw |-> "none", zones |-> AsTrade(body.items)]

ZonesResult(kind, why, zones, body) ==
    [op |-> "zones", kind |-> kind, why |-> why, zones |-> zones,
     body |-> body]

NoBody == [fmt |-> "none", shape |-> "none", items |-> <<>>]

\* searchZones(lat, lon) up to the await of fetchWithRetry.
ZonesCall(p) ==
    /\ pc[p] = "idle"
    /\ nCalls < MaxCalls
    /\ nCalls' = nCalls + 1
    /\ IF DataKeyMissing(env)
       THEN Finish(p, ZonesResult("raised", "auth", <<>>, NoBody))
       ELSE Issue(p, "zones", "zones", IdleLoc)
    /\ UNCHANGED <<currentProxyIndex, sgisVars, cacheVars, pageVars, now>>

\* fetchWithRetry has settled: the rest of searchZones.
ZonesSettled(p) ==
    /\ pc[p] = "zones"
    /\ FetchSettled(p)
    /\ IF fr[p].st = "failed"
       THEN Finish(p, ZonesResult("raised", "network", <<>>, NoBody))
       ELSE \E body \in ZoneBodies :
            LET parsed == ParseZones(env.build, body)
            IN  IF parsed.threw # "none"
                THEN Finish(p, ZonesResult("raised", parsed.threw, <<>>, body))
                ELSE IF Len(parsed.zones) = 0
                THEN Finish(p, ZonesResult("raised", "no_results", <<>>, body))
                ELSE Finish(p, ZonesResult("returned", "ok", parsed.zones, body))
    /\ UNCHANGED <<nCalls, currentProxyIndex, sgisVars, cacheVars, pageVars, now>>

ZonesInit ==
    /\ pc = [p \in Procs |-> "idle"]
    /\ loc = [p \in Procs |-> IdleLoc]
    /\ ret = NoResult
    /\ fr = [p \in Procs |-> IdleFrame]
    /\ currentProxyIndex = 0
    /\ sgisAccessToken = NoToken
    /\ tokenExpiry = 0
    /\ polygonCache = <<>>
    /\ cachedFeatures = NoFeatures
    /\ env \in [build : {"rotating", "shapefile"}, sgisKey : {TRUE},
                proj4 : {TRUE}, shp : {TRUE},
                vworldKey : {TRUE}, dataKey : BOOLEAN]
    /\ app = NoApp
    /\ now = 0
    /\ nAuth = 0
    /\ nObj = 0
    /\ firstPut = <<>>
    /\ lastPut = <<>>
    /\ nCalls = 0
    /\ nRet = 0

ZonesNext ==
    \E p \in Solo :
        \/ ZonesCall(p)
        \/ FetchSettle(p)
        \/ FetchRead(p)
        \/ ZonesSettled(p)

ZonesSpec == ZonesInit /\ [][ZonesNext]_vars

\* ------------------------------------------------------ searchAdminDistrict
\* Names are sequences of syllables; s.includes(t) is "t occurs in s".
Includes(s, t) ==
    \E i \in 0 .. (Len(s) - Len(t)) :
        \A k \in 1 .. Len(t) : s[i + k] = t[k]

\* name.replace(/[0-9.]+|dong$/g, "").trim(): the digits go, and a final
\* "dong".
RECURSIVE NoDigits(_)
NoDigits(name) ==
    IF Len(name) = 0 THEN <<>>
    ELSE IF Head(name) \in {"1", "2"} THEN NoDigits(Tail(name))
    ELSE <<Head(name)>> \o NoDigits(Tail(name))
CleanDong(name) ==
    LET body == IF Len(name) > 0 /\ name[Len(name)] = "dong"
                THEN SubSeq(name, 1, Len(name) - 1) ELSE name
    IN  NoDigits(body)

\* What the caller passes: the parts of the address, up to three.
AdminInputs ==
    { <<>>,
      << <<"seoul">> >>,
      << <<"jeju">>, <<"gangnam">> >>,
      << <<"seoul">>, <<"jung">> >>,
      << <<"seoul">>, <<"gangnam">> >>,
      << <<"seoul">>, <<"gangnam", "gu", "office">> >>,
      << <<"seoul">>, <<"gangnam">>, <<"yeoksam">> >>,
      << <<"seoul">>, <<"gangnam">>, <<"yeoksam", "dong">> >>,
      << <<"seoul">>, <<"gangnam">>, <<"cheongdam">> >> }
\* parts[i], or "" past the end.
Part(parts, i) == IF i <= Len(parts) THEN parts[i] ELSE <<>>

\* The provider's lists, as fetchBaroApi finds them in the text: body.items
\* as an array or as a single object, no items, XML, or text that is neither.
Sido(code, name) == [ctprvnCd |-> code, ctprvnNm |-> name]
Sigungu(code, name) == [signguCd |-> code, signguNm |-> name]
Adong(code, name) == [adongCd |-> code, adongNm |-> name]
BaroBody(shape, items) == [shape |-> shape, items |-> items]
SidoBodies ==
    { BaroBody("array", << Sido(41, <<"gyeonggi", "do">>),
                           Sido(11, <<"seoul", "si">>) >>),
      BaroBody("object", << Sido(41, <<"gyeonggi", "do">>) >>),
      BaroBody("xml", <<>>) }
SigunguBodies ==
    { BaroBody("array", << Sigungu(11710, <<"songpa", "gu">>),
                           Sigungu(11680, <<"gangnam", "gu">>) >>),
      BaroBody("object", << Sigungu(11710, <<"songpa", "gu">>) >>),
      BaroBody("text", <<>>) }
AdongBodies ==
    { BaroBody("array", << Adong(Code1, <<"yeoksam", "1", "dong">>),
                           Adong(Code2, <<"samseong", "1", "dong">>) >>),
      BaroBody("object", << Adong(Code2, <<"samseong", "1", "dong">>) >>),
      BaroBody("none", <<>>),
      BaroBody("xml", <<>>) }

\* fetchBaroApi, from the text on: the items as an array, or [].
BaroItems(body) ==
    IF body.shape \in {"array", "object"} THEN body.items ELSE <<>>

\* sidos.find(...): the index of the first province that contains the name or
\* is contained in it; 0 for none.
FindSido(sidos, name) ==
    LET hit(k) == \/ Includes(sidos[k].ctprvnNm, name)
                  \/ Includes(name, sidos[k].ctprvnNm)
    IN  IF \E k \in 1 .. Len(sidos) : hit(k)
        THEN CHOOSE k \in 1 .. Len(sidos) :
                hit(k) /\ \A j \in 1 .. (k - 1) : ~hit(j)
        ELSE 0

\* A find that settles for the first city when none matches.
FindSigunguOrFirst(build, sigungus, name) ==
    LET hit(k) == \/ Includes(sigungus[k].signguNm, name)
                  \/ build = "rotating" /\ Includes(name, sigungus[k].signguNm)
    IN  IF \E k \in 1 .. Len(sigungus) : hit(k)
        THEN CHOOSE k \in 1 .. Len(sigungus) :
                hit(k) /\ \A j \in 1 .. (k - 1) : ~hit(j)
        ELSE IF Len(sigungus) > 0 THEN 1 ELSE 0

\* sigungus.find(...): the first city that contains the name (and, in the
\* version with the rotating list, one contained in it); 0 for none.
FindSigungu(build, sigungus, name) ==
    LET hit(k) == \/ Includes(sigungus[k].signguNm, name)
                  \/ build = "rotating" /\ Includes(name, sigungus[k].signguNm)
    IN  IF \E k \in 1 .. Len(sigungus) : hit(k)
        THEN CHOOSE k \in 1 .. Len(sigungus) :
                hit(k) /\ \A j \in 1 .. (k - 1) : ~hit(j)
        ELSE 0

\* The test of the district filter.
DongMatches(build, d, dong) ==
    \/ Includes(d.adongNm, dong)
    \/ /\ build = "rotating"
       /\ Len(CleanDong(dong)) > 0
       /\ CleanDong(d.adongNm) = CleanDong(dong)

\* filteredDongs: all districts without a hint; with one, the matches, and
\* when there is none, all districts again - except in the version whose
\* filter has no fallback.
FilterDongs(build, dongs, dong) ==
    LET matches == SelectSeq(dongs, LAMBDA d : DongMatches(build, d, dong))
    IN  IF Len(dong) = 0 THEN dongs
        ELSE IF build = "plainfilter" THEN matches
        ELSE IF Len(matches) > 0 THEN matches
        ELSE dongs

\* filteredDongs.map(d => ({ ... }))
AdminZone(sido, sigungu, d) ==
    [trarNo |-> d.adongCd,
     mainTrarNm |-> <<sido.ctprvnNm, sigungu.signguNm, d.adongNm>>,
     type |-> "admin", adminCode |-> d.adongCd]
AdminZones(sido, sigungu, dongs) ==
    [k \in 1 .. Len(dongs) |-> AdminZone(sido, sigungu, dongs[k])]

AdminLoc == [reqs |-> <<>>, parts |-> <<>>, sidos |-> <<>>, tSido |-> 0,
             sigungus |-> <<>>, tSigungu |-> 0, dongs |-> <<>>]
AdminResult(l, kind, why, zones) ==
    [op |-> "admin", kind |-> kind, why |-> why, zones |-> zones,
     reqs |-> l.reqs, parts |-> l.parts, sidos |-> l.sidos,
     tSido |-> l.tSido, sigungus |-> l.sigungus, tSigungu |-> l.tSigungu,
     dongs |-> l.dongs]
\* The throws that say "not found".
AdminNotFound == {"sido_not_found", "sigungu_not_found", "no_results"}

\* searchAdminDistrict up to the await of the province list.
AdminCall(p) ==
    /\ pc[p] = "idle"
    /\ nCalls < MaxCalls
    /\ nCalls' = nCalls + 1
    /\ \E parts \in AdminInputs :
        LET l0 == [AdminLoc EXCEPT !.parts = parts] IN
        IF DataKeyMissing(env)
        THEN Finish(p, AdminResult(l0, "raised", "auth", <<>>))
        ELSE IF Len(Part(parts, 1)) = 0
        THEN Finish(p, AdminResult(l0, "raised", "no_sido", <<>>))
        ELSE Issue(p, "mega", "mega", l0)
    /\ UNCHANGED <<currentProxyIndex, sgisVars, cacheVars, pageVars, now>>

\* The province list is in: up to the await of the city list.
AdminSidoSettled(p) ==
    /\ pc[p] = "mega"
    /\ FetchSettled(p)
    /\ IF fr[p].st = "failed"
       THEN Finish(p, AdminResult(loc[p], "raised", "network", <<>>))
       ELSE \E body \in SidoBodies :
            LET sidos == BaroItems(body)
                t == FindSido(sidos, Part(loc[p].parts, 1))
                l1 == [loc[p] EXCEPT !.sidos = sidos, !.tSido = t]
            IN  IF t = 0
                THEN Finish(p, AdminResult(l1, "raised", "sido_not_found", <<>>))
                ELSE IF Len(Part(loc[p].parts, 2)) = 0
                THEN Finish(p, AdminResult(l1, "raised", "need_sigungu", <<>>))
                ELSE Issue(p, "cty", "cty", l1)
    /\ UNCHANGED <<nCalls, currentProxyIndex, sgisVars, cacheVars, pageVars, now>>

\* The city list is in: up to the await of the district list.
AdminSigunguSettled(p) ==
    /\ pc[p] = "cty"
    /\ FetchSettled(p)
    /\ IF fr[p].st = "failed"
       THEN Finish(p, AdminResult(loc[p], "raised", "network", <<>>))
       ELSE \E body \in SigunguBodies :
            LET sigungus == BaroItems(body)
                t == FindSigungu(env.build, sigungus, Part(loc[p].parts, 2))
                l1 == [loc[p] EXCEPT !.sigungus = sigungus, !.tSigungu = t]
            IN  IF t # 0 THEN Issue(p, "admi", "admi", l1)
                ELSE IF env.build = "rotating"
                THEN Finish(p, AdminResult(l1, "raised", "sigungu_not_found",
                                           <<>>))
                ELSE Finish(p, AdminResult(l1, "raised", "no_results", <<>>))
    /\ UNCHANGED <<nCalls, currentProxyIndex, sgisVars, cacheVars, pageVars, now>>

\* The district list is in: the filter, the zones, the return or the throw.
AdminDongSettled(p) ==
    /\ pc[p] = "admi"
    /\ FetchSettled(p)
    /\ IF fr[p].st = "failed"
       THEN Finish(p, AdminResult(loc[p], "raised", "network", <<>>))
       ELSE \E body \in AdongBodies :
            LET dongs == BaroItems(body)
                l1 == [loc[p] EXCEPT !.dongs = dongs]
                adminZones ==
                    AdminZones(l1.sidos[l1.tSido], l1.sigungus[l1.tSigungu],
                               FilterDongs(env.build, dongs,
                                           Part(l1.parts, 3)))
            IN  IF Len(adminZones) = 0
                THEN Finish(p, AdminResult(l1, "raised", "no_results", <<>>))
                ELSE Finish(p, AdminResult(l1, "returned", "ok", adminZones))
    /\ UNCHANGED <<nCalls, currentProxyIndex, sgisVars, cacheVars, pageVars, now>>

AdminInit ==
    /\ pc = [p \in Procs |-> "idle"]
    /\ loc = [p \in Procs |-> IdleLoc]
    /\ ret = NoResult
    /\ fr = [p \in Procs |-> IdleFrame]
    /\ currentProxyIndex = 0
    /\ sgisAccessToken = NoToken
    /\ tokenExpiry = 0
    /\ polygonCache = <<>>
    /\ cachedFeatures = NoFeatures
    /\ env \in [build : {"rotating", "shapefile", "plainfilter"},
                sgisKey : {TRUE}, proj4 : {TRUE}, shp : {TRUE},
                vworldKey : {TRUE}, dataKey : BOOLEAN]
    /\ app = NoApp
    /\ now = 0
    /\ nAuth = 0
    /\ nObj = 0
    /\ firstPut = <<>>
    /\ lastPut = <<>>
    /\ nCalls = 0
    /\ nRet = 0

AdminNext ==
    \E p \in Solo :
        \/ AdminCall(p)
        \/ FetchSettle(p)
        \/ FetchRead(p)
        \/ AdminSidoSettled(p)
        \/ AdminSigunguSettled(p)
        \/ AdminDongSettled(p)

AdminSpec == AdminInit /\ [][AdminNext]_vars

\* ------------------------------------------- fetchStores, fetchStoresInAdmin
\* const PAGE_SIZE = 500
PageSize == 500
\* const BATCH_SIZE: 6 with the rotating list, 3 with fetchStandard
BatchSize(build) == IF build = "rotating" THEN 6 ELSE 3

\* Math.ceil(totalCount / PAGE_SIZE)
TotalPages(totalCount) == (totalCount + PageSize - 1) \div PageSize
\* Math.min(i + BATCH_SIZE - 1, totalPages)
EndPage(build, i, totalPages) ==
    IF i + BatchSize(build) - 1 < totalPages
    THEN i + BatchSize(build) - 1 ELSE totalPages

\* The first page as the provider answers it: XML, text that does not parse,
\* or JSON with items (an array or one object) or without, and a totalCount
\* that may be absent (0).
FirstBodies ==
    { [fmt |-> "xml", shape |-> "none", totalCount |-> 0],
      [fmt |-> "text", shape |-> "none", totalCount |-> 0],
      [fmt |-> "json", shape |-> "absent", totalCount |-> PageSize * MaxPages],
      [fmt |-> "json", shape |-> "object", totalCount |-> 0] }
    \cup { [fmt |-> "json", shape |-> "array", totalCount |-> c] :
             c \in {0, PageSize + 1, PageSize * MaxPages} }

\* Lists of stores are kept by their length. The stores of a page: an array
\* (of one store here) as it is, a single object wrapped into an array.
PageItems(shape) ==
    IF shape \in {"array", "object"} THEN 1 ELSE 0

\* The first page, from the text to allStores and totalCount.
ParseFirst(body) ==
    IF body.fmt = "json" /\ body.shape \in {"array", "object"}
    THEN [allStores |-> PageItems(body.shape),
          totalCount |-> IF body.totalCount # 0 THEN body.totalCount
                         ELSE PageItems(body.shape)]
    ELSE [allStores |-> 0, totalCount |-> 0]

\* What the promise of one later page resolves to: null (XML, text that does
\* not parse, no items, a request that failed on every path) or the items -
\* those of an array, of one object, or (for the first page of a batch) of an
\* empty array. path: the entry of PROXY_LIST that answered.
PageOutcomes(build, i, page) ==
    { [kind |-> "network", path |-> 0] }
    \cup { [kind |-> k, path |-> x] :
             k \in {"xml", "text", "absent", "array", "object"}, x \in Paths }
    \cup (IF page = i THEN {[kind |-> "empty", path |-> x] : x \in Paths}
          ELSE {})
PageResult(outcome) ==
    IF outcome.kind \in {"array", "object"}
    THEN [valid |-> TRUE, items |-> PageItems(outcome.kind)]
    ELSE IF outcome.kind = "empty" THEN [valid |-> TRUE, items |-> 0]
    ELSE [valid |-> FALSE, items |-> 0]

\* A count of failed batches that is never reset.
ConsecutiveErrorsNoReset(consecutiveErrors, nValid) ==
    IF nValid = 0 THEN consecutiveErrors + 1 ELSE consecutiveErrors

\* validResults.length === 0 ? consecutiveErrors++ : consecutiveErrors = 0
ConsecutiveErrorsAfter(consecutiveErrors, nValid) ==
    IF nValid = 0 THEN consecutiveErrors + 1 ELSE 0

\* validResults.forEach(items => allStores = [...allStores, ...items]), the
\* results being in the order of the pages.
RECURSIVE CollectedWithFailed(_, _, _)
CollectedWithFailed(results, from, to) ==
    IF from > to THEN 0
    ELSE (IF results[from].valid THEN results[from].items ELSE 1)
         + CollectedWithFailed(results, from + 1, to)
RECURSIVE Collected(_, _, _)
Collected(results, from, to) ==
    IF from > to THEN 0
    ELSE results[from].items + Collected(results, from + 1, to)

\* const validResults = results.filter(r => r !== null): the usable results
\* in the order of the promises, which is the order of the pages; each with
\* the page its stores came from.
RECURSIVE ValidResultsDescending(_, _, _)
ValidResultsDescending(results, from, to) ==
    IF from > to THEN <<>>
    ELSE IF results[to].valid
         THEN <<[page |-> to, items |-> results[to].items]>>
              \o ValidResultsDescending(results, from, to - 1)
    ELSE ValidResultsDescending(results, from, to - 1)
RECURSIVE ValidResults(_, _, _)
ValidResults(results, from, to) ==
    IF from > to THEN <<>>
    ELSE IF results[from].valid
         THEN <<[page |-> from, items |-> results[from].items]>>
              \o ValidResults(results, from + 1, to)
    ELSE ValidResults(results, from + 1, to)

\* onProgress(`${i}~${endPage} / ${totalPages} ...`): the three numbers of the
\* text, and how many later pages had been requested when it was called.
ProgressTextUncapped(build, i, totalPages, nRequested) ==
    [x |-> i, y |-> i + BatchSize(build) - 1, n |-> totalPages,
     at |-> nRequested]
ProgressText(build, i, totalPages, nRequested) ==
    [x |-> i, y |-> EndPage(build, i, totalPages), n |-> totalPages,
     at |-> nRequested]

StoreLoc == [reqs |-> <<>>, fn |-> "none", totalPages |-> 0, i |-> 0,
             pending |-> {}, results |-> <<>>, consecutiveErrors |-> 0,
             allStores |-> 0, requested |-> <<>>, valids |-> <<>>,
             progress |-> <<>>, validResults |-> <<>>]
StoresResult(l, kind, why) ==
    [op |-> "stores", kind |-> kind, why |-> why, stores |-> l.allStores,
     fn |-> l.fn, totalPages |-> l.totalPages, requested |-> l.requested,
     valids |-> l.valids, consecutiveErrors |-> l.consecutiveErrors,
     progress |-> l.progress, validResults |-> l.validResults]

\* The body of the for loop up to its await Promise.all: the progress
\* callback, then every page of the batch is requested.
StartBatch(p, l, i) ==
    LET pages == i .. EndPage(env.build, i, l.totalPages) IN
    /\ pc' = [pc EXCEPT ![p] = "batch"]
    /\ loc' = [loc EXCEPT ![p] =
                  [l EXCEPT !.i = i, !.pending = pages,
                            !.results = <<>>,
                            !.validResults = <<>>,
                            !.progress =
                                Append(@, ProgressText(env.build, i,
                                                       l.totalPages,
                                                       Len(l.requested))),
                            !.requested =
                                @ \o [k \in 1 .. (EndPage(env.build, i,
                                                         l.totalPages) - i + 1)
                                        |-> i + k - 1]]]
    /\ ret' = NoResult
    /\ fr' = [fr EXCEPT ![p] = IdleFrame]
    /\ UNCHANGED nRet

\* fetchStores(zoneNo) or fetchStoresInAdmin(adminCode, divId) up to the
\* await of the first page.
StoresCall(p) ==
    /\ pc[p] = "idle"
    /\ nCalls < MaxCalls
    /\ nCalls' = nCalls + 1
    /\ \E fn \in {"fetchStores", "fetchStoresInAdmin"} :
        LET l0 == [StoreLoc EXCEPT !.fn = fn] IN
        IF DataKeyMissing(env)
        THEN Finish(p, StoresResult(l0, "raised", "auth"))
        ELSE Issue(p, "first", "page1", l0)
    /\ UNCHANGED <<currentProxyIndex, sgisVars, cacheVars, pageVars, now>>

\* The first page is in: up to the await of the first batch, or the return.
StoresFirstSettled(p) ==
    /\ pc[p] = "first"
    /\ FetchSettled(p)
    /\ IF fr[p].st = "failed"
       THEN Finish(p, StoresResult(loc[p], "raised", "network"))
       ELSE \E body \in FirstBodies :
            LET first == ParseFirst(body)
                l1 == [loc[p] EXCEPT
                          !.allStores = first.allStores,
                          !.totalPages = TotalPages(first.totalCount)]
            IN  IF body.fmt = "xml"
                THEN Finish(p, StoresResult(loc[p], "raised", "xml_error"))
                ELSE IF l1.totalPages > 1
                THEN StartBatch(p, l1, 2)
                ELSE Finish(p, StoresResult(l1, "returned", "ok"))
    /\ UNCHANGED <<nCalls, currentProxyIndex, sgisVars, cacheVars, pageVars, now>>

\* The promise of one page of the batch settles.
StoresPageSettled(p) ==
    /\ pc[p] = "batch"
    /\ \E page \in loc[p].pending :
       \E outcome \in PageOutcomes(env.build, loc[p].i, page) :
        /\ loc' = [loc EXCEPT ![p] =
                      [@ EXCEPT !.pending = @ \ {page},
                                !.results =
                                    [q \in DOMAIN @ \cup {page} |->
                                        IF q = page
                                        THEN PageResult(outcome)
                                        ELSE @[q]]]]
        /\ currentProxyIndex' =
              IF env.build = "rotating" /\ outcome.kind # "network"
              THEN outcome.path ELSE currentProxyIndex
    /\ ret' = NoResult
    /\ UNCHANGED <<pc, fr, nCalls, nRet, sgisVars, cacheVars, pageVars, now>>

\* Promise.all has resolved: the rest of the loop body up to the await of the
\* 50 ms timer, or the break and the return.
StoresBatchDone(p) ==
    /\ pc[p] = "batch"
    /\ loc[p].pending = {}
    /\ LET l == loc[p]
           endPage == EndPage(env.build, l.i, l.totalPages)
           nValid == Cardinality({q \in l.i .. endPage : l.results[q].valid})
           validResults == ValidResults(l.results, l.i, endPage)
           l1 == [l EXCEPT
                     !.consecutiveErrors = ConsecutiveErrorsAfter(@, nValid),
                     !.allStores = @ + Collected(l.results, l.i, endPage),
                     !.validResults = validResults,
                     !.results = <<>>,
                     !.valids = Append(@, nValid)]
       IN  IF l1.consecutiveErrors >= 2
           THEN Finish(p, StoresResult(l1, "returned", "ok"))
           ELSE /\ pc' = [pc EXCEPT ![p] = "sleep"]
                /\ loc' = [loc EXCEPT ![p] = l1]
                /\ ret' = NoResult
                /\ UNCHANGED <<fr, nRet>>
    /\ UNCHANGED <<nCalls, currentProxyIndex, sgisVars, cacheVars, pageVars, now>>

\* The timer has fired: i += BATCH_SIZE, the loop test, the next batch or the
\* return.
StoresSleepDone(p) ==
    /\ pc[p] = "sleep"
    /\ LET next == loc[p].i + BatchSize(env.build)
       IN  IF next <= loc[p].totalPages
           THEN StartBatch(p, loc[p], next)
           ELSE Finish(p, StoresResult(loc[p], "returned", "ok"))
    /\ UNCHANGED <<nCalls, currentProxyIndex, sgisVars, cacheVars, pageVars, now>>

StoresInit ==
    /\ pc = [p \in Procs |-> "idle"]
    /\ loc = [p \in Procs |-> IdleLoc]
    /\ ret = NoResult
    /\ fr = [p \in Procs |-> IdleFrame]
    /\ currentProxyIndex = 0
    /\ sgisAccessToken = NoToken
    /\ tokenExpiry = 0
    /\ polygonCache = <<>>
    /\ cachedFeatures = NoFeatures
    /\ env \in [build : {"rotating", "standard"},
                sgisKey : {TRUE}, proj4 : {TRUE}, shp : {TRUE},
                vworldKey : {TRUE}, dataKey : BOOLEAN]
    /\ app = NoApp
    /\ now = 0
    /\ nAuth = 0
    /\ nObj = 0
    /\ firstPut = <<>>
    /\ lastPut = <<>>
    /\ nCalls = 0
    /\ nRet = 0

StoresNext ==
    \E p \in Solo :
        \/ StoresCall(p)
        \/ FetchSettle(p)
        \/ FetchRead(p)
        \/ StoresFirstSettled(p)
        \/ StoresPageSettled(p)
        \/ StoresBatchDone(p)
        \/ StoresSleepDone(p)

StoresSpec == StoresInit /\ [][StoresNext]_vars

\* ------------------------------- fetchStores, one page after the other
\* const MAX_PAGES = 10 in fetchStores, 5 in fetchStoresInAdmin;
\* const loopLimit = Math.min(totalPages, MAX_PAGES)
MAX_PAGES(fn) == IF fn = "fetchStoresInAdmin" THEN 5 ELSE 10
LoopLimit(fn, totalPages) ==
    IF totalPages < MAX_PAGES(fn) THEN totalPages ELSE MAX_PAGES(fn)

\* What the text of one later page can be: XML, text that does not parse, JSON
\* without body.items, with an array of stores (of one store here, or empty),
\* or with a single object. It is the same in fetchStoresInAdmin, whose timer
\* is of 200 ms.
LoopBodies == {"xml", "text", "absent", "array", "empty", "object"}

\* JSON.parse and allStores = [...allStores, ...nextJson.body.items] inside
\* the try: the stores of an array are added; JSON.parse throws on the others
\* and the spread throws on an object that is not iterable, and the empty
\* catch block takes either.
LoopItems(kind) ==
    IF kind = "array" THEN 1 ELSE 0

\* The body of the for loop up to its await fetchWithRetry(nextUrl).
StartPage(p, l, i) ==
    Issue(p, "page", "page",
          [l EXCEPT !.i = i, !.requested = Append(@, i)])

\* fetchStores(zoneNo) or fetchStoresInAdmin(adminCode, divId) up to the
\* await of the first page.
LoopStoresCall(p) ==
    /\ env.build = "shapefile"
    /\ pc[p] = "idle"
    /\ nCalls < MaxCalls
    /\ nCalls' = nCalls + 1
    /\ \E fn \in {"fetchStores", "fetchStoresInAdmin"} :
        LET l0 == [StoreLoc EXCEPT !.fn = fn] IN
        IF DataKeyMissing(env)
        THEN Finish(p, StoresResult(l0, "raised", "auth"))
        ELSE Issue(p, "loopfirst", "page1", l0)
    /\ UNCHANGED <<currentProxyIndex, sgisVars, cacheVars, pageVars, now>>

\* The first page is in: the try around JSON.parse, loopLimit, and the loop up
\* to the await of page 2, or the return. A rejection of fetchWithRetry is
\* outside the try and leaves the function.
LoopFirstSettled(p) ==
    /\ pc[p] = "loopfirst"
    /\ FetchSettled(p)
    /\ IF fr[p].st = "failed"
       THEN Finish(p, StoresResult(loc[p], "raised", "network"))
       ELSE \E body \in FirstBodies :
            LET first == ParseFirst(body)
                l1 == [loc[p] EXCEPT
                          !.allStores = first.allStores,
                          !.totalPages = TotalPages(first.totalCount)]
            IN  IF LoopLimit(l1.fn, l1.totalPages) > 1
                THEN StartPage(p, l1, 2)
                ELSE Finish(p, StoresResult(l1, "returned", "ok"))
    /\ UNCHANGED <<nCalls, currentProxyIndex, sgisVars, cacheVars, pageVars, now>>

\* fetchWithRetry(nextUrl) has settled inside the try: the stores of the page
\* or the catch, then onProgress(`${i} / ${loopLimit} ...`) up to the await of
\* the 100 ms timer.
LoopPageSettled(p) ==
    /\ pc[p] = "page"
    /\ FetchSettled(p)
    /\ \E kind \in LoopBodies :
        LET l == loc[p]
            items == IF fr[p].st = "failed" THEN 0 ELSE LoopItems(kind)
        IN  /\ loc' = [loc EXCEPT ![p] =
                          [l EXCEPT !.allStores = @ + items,
                                    !.valids = Append(@, items),
                                    !.progress =
                                        Append(@, [x |-> l.i, y |-> l.i,
                                                   n |-> LoopLimit(l.fn, l.totalPages),
                                                   at |-> Len(l.requested)])]]
            /\ pc' = [pc EXCEPT ![p] = "loopsleep"]
            /\ fr' = [fr EXCEPT ![p] = IdleFrame]
            /\ ret' = NoResult
    /\ UNCHANGED <<nCalls, nRet, currentProxyIndex, sgisVars, cacheVars, pageVars, now>>

\* The timer has fired: i++, the loop test, the next page or the return.
LoopSleepDone(p) ==
    /\ pc[p] = "loopsleep"
    /\ IF loc[p].i + 1 <= LoopLimit(loc[p].fn, loc[p].totalPages)
       THEN StartPage(p, loc[p], loc[p].i + 1)
       ELSE Finish(p, StoresResult(loc[p], "returned", "ok"))
    /\ UNCHANGED <<nCalls, currentProxyIndex, sgisVars, cacheVars, pageVars, now>>

\* The store pagination of every version: in batches, or page after page.
PagesInit ==
    /\ pc = [p \in Procs |-> "idle"]
    /\ loc = [p \in Procs |-> IdleLoc]
    /\ ret = NoResult
    /\ fr = [p \in Procs |-> IdleFrame]
    /\ currentProxyIndex = 0
    /\ sgisAccessToken = NoToken
    /\ tokenExpiry = 0
    /\ polygonCache = <<>>
    /\ cachedFeatures = NoFeatures
    /\ env \in [build : {"rotating", "standard", "shapefile"},
                sgisKey : {TRUE}, proj4 : {TRUE}, shp : {TRUE},
                vworldKey : {TRUE}, dataKey : BOOLEAN]
    /\ app = NoApp
    /\ now = 0
    /\ nAuth = 0
    /\ nObj = 0
    /\ firstPut = <<>>
    /\ lastPut = <<>>
    /\ nCalls = 0
    /\ nRet = 0

\* Which fetchStores a page calls is the one its version exports.
BatchStoresCall(p) ==
    /\ env.build # "shapefile"
    /\ StoresCall(p)

PagesNext ==
    \E p \in Solo :
        \/ BatchStoresCall(p)
        \/ StoresFirstSettled(p)
        \/ StoresPageSettled(p)
        \/ StoresBatchDone(p)
        \/ StoresSleepDone(p)
        \/ LoopStoresCall(p)
        \/ LoopFirstSettled(p)
        \/ LoopPageSettled(p)
        \/ LoopSleepDone(p)
        \/ FetchSettle(p)
        \/ FetchRead(p)

PagesSpec == PagesInit /\ [][PagesNext]_vars

\* ------------------------------------------------------------------ parseWKT
\* Texts are sequences of characters.
\* s.trim()
RECURSIVE TrimLeft(_)
TrimLeft(s) ==
    IF Len(s) > 0 /\ Head(s) = " " THEN TrimLeft(Tail(s)) ELSE s
RECURSIVE TrimRight(_)
TrimRight(s) ==
    IF Len(s) > 0 /\ s[Len(s)] = " "
    THEN TrimRight(SubSeq(s, 1, Len(s) - 1)) ELSE s
Trim(s) == TrimRight(TrimLeft(s))

\* s.split(','): the pieces between the commas; one empty piece for "".
RECURSIVE SplitComma(_, _)
SplitComma(s, piece) ==
    IF Len(s) = 0 THEN <<piece>>
    ELSE IF Head(s) = "," THEN <<piece>> \o SplitComma(Tail(s), <<>>)
    ELSE SplitComma(Tail(s), Append(piece, Head(s)))

\* s.split(/\s+/) of a trimmed text: the pieces between runs of blanks.
RECURSIVE SplitBlanks(_, _)
SplitBlanks(s, piece) ==
    IF Len(s) = 0 THEN <<piece>>
    ELSE IF Head(s) = " "
         THEN <<piece>> \o SplitBlanks(TrimLeft(s), <<>>)
    ELSE SplitBlanks(Tail(s), Append(piece, Head(s)))

\* parseFloat(s): the longest prefix that is a number - a sign, digits, a
\* point, digits - whatever follows it; NaN without a digit.
Digits == {"0", "1", "2", "3", "7"}
RECURSIVE DigitRun(_)
DigitRun(s) ==
    IF Len(s) > 0 /\ Head(s) \in Digits
    THEN <<Head(s)>> \o DigitRun(Tail(s)) ELSE <<>>
NaN == [finite |-> FALSE, neg |-> FALSE, int |-> <<>>, frac |-> <<>>]
ParseFloat(s) ==
    LET neg == Len(s) > 0 /\ Head(s) = "-"
        body == IF Len(s) > 0 /\ Head(s) \in {"-", "+"} THEN Tail(s) ELSE s
        int == DigitRun(body)
        rest == SubSeq(body, Len(int) + 1, Len(body))
        frac == IF Len(rest) > 0 /\ Head(rest) = "."
                THEN DigitRun(Tail(rest)) ELSE <<>>
    IN  IF Len(int) + Len(frac) = 0 THEN NaN
        ELSE [finite |-> TRUE, neg |-> neg, int |-> int, frac |-> frac]

\* The callback of points.map: [lat, lon] of a token with two parts or more
\* whose first two are finite numbers, null (<<>>) of any other.
ParsePoint(token) ==
    LET parts == SplitBlanks(Trim(token), <<>>)
    IN  IF Len(parts) >= 2
           /\ ParseFloat(parts[1]).finite /\ ParseFloat(parts[2]).finite
        THEN <<ParseFloat(parts[2]), ParseFloat(parts[1])>>
        ELSE <<>>

\* wkt.replace(/^POLYGON\s*/i, '')
Upper(c) ==
    CASE c = "p" -> "P" [] c = "o" -> "O" [] c = "l" -> "L" [] c = "y" -> "Y"
      [] c = "g" -> "G" [] c = "n" -> "N" [] OTHER -> c
WordPolygon == <<"P", "O", "L", "Y", "G", "O", "N">>
StripPolygon(wkt) ==
    IF /\ Len(wkt) >= Len(WordPolygon)
       /\ \A k \in 1 .. Len(WordPolygon) : Upper(wkt[k]) = WordPolygon[k]
    THEN TrimLeft(SubSeq(wkt, Len(WordPolygon) + 1, Len(wkt)))
    ELSE wkt

\* cleanWkt.match(/\([^()]+\)/g), each match without its parentheses: the
\* texts between a "(" and the ")" that is the next parenthesis after it.
NextParen(s, i) ==
    IF \E j \in (i + 1) .. Len(s) : s[j] \in {"(", ")"}
    THEN CHOOSE j \in (i + 1) .. Len(s) :
            /\ s[j] \in {"(", ")"}
            /\ \A k \in (i + 1) .. (j - 1) : s[k] \notin {"(", ")"}
    ELSE 0
RECURSIVE MatchRings(_, _)
MatchRings(s, i) ==
    IF i > Len(s) THEN <<>>
    ELSE IF s[i] = "(" /\ NextParen(s, i) > i + 1 /\ s[NextParen(s, i)] = ")"
         THEN <<SubSeq(s, i + 1, NextParen(s, i) - 1)>>
              \o MatchRings(s, NextParen(s, i) + 1)
    ELSE MatchRings(s, i + 1)

\* points.map(...).filter(c => c !== null)
ParseRing(content) ==
    SelectSeq([k \in 1 .. Len(SplitComma(content, <<>>)) |->
                  ParsePoint(SplitComma(content, <<>>)[k])],
              LAMBDA c : c # <<>>)

parseWKT(wkt) ==
    IF Len(wkt) = 0 THEN <<>>
    ELSE LET rings == MatchRings(Trim(StripPolygon(wkt)), 1)
         IN  [r \in 1 .. Len(rings) |-> ParseRing(rings[r])]

\* The coords of a zone as the provider may send them: a prefix, and rings of
\* point tokens. Tokens that are points of WKT, and tokens that are not.
GoodTokens ==
    { <<"1", "2", "7", " ", "3", "7">>,
      <<"-", "1", ".", "7", " ", "+", "2">>,
      <<" ", "2", " ", " ", "1", " ">> }
BadTokens ==
    { <<"1", "2", "7", "x", " ", "3", "7">>,
      <<"x", " ", "3", "7">>,
      <<"1", "2", "7">>,
      <<>> }
PointTokens == GoodTokens \cup BadTokens
WktPrefixes ==
    { WordPolygon, WordPolygon \o <<" ">>,
      <<"p", "o", "l", "y", "g", "o", "n", " ">> }
TokenRings ==
    UNION { [1 .. n -> PointTokens] : n \in (MaxPoints - 1) .. MaxPoints }
GoodRing == [k \in 1 .. 3 |-> <<"1", "2", "7", " ", "3", "7">>]
NoCoords == [prefix |-> <<>>, rings |-> <<>>]
WktInputs ==
    [prefix : WktPrefixes,
     rings : {<<>>} \cup { <<r>> : r \in TokenRings }
             \cup { <<GoodRing, r>> : r \in [1 .. 3 -> BadTokens] }
             \cup { <<r, GoodRing>> : r \in [1 .. 3 -> BadTokens] }]
    \cup {NoCoords}

\* The text of an input.
RECURSIVE JoinComma(_)
JoinComma(pieces) ==
    IF Len(pieces) = 0 THEN <<>>
    ELSE IF Len(pieces) = 1 THEN pieces[1]
    ELSE pieces[1] \o <<",">> \o JoinComma(Tail(pieces))
WktText(input) ==
    IF input = NoCoords THEN <<>>
    ELSE input.prefix \o <<"(">>
         \o JoinComma([r \in 1 .. Len(input.rings) |->
                          <<"(">> \o JoinComma(input.rings[r]) \o <<")">>])
         \o <<")">>

WktResult(input, value) ==
    [op |-> "parseWKT", kind |-> "returned", input |-> input, value |-> value]

\* handleSearchZones has a zone with its coords in hand.
WktLoc(input) == [IdleLoc EXCEPT !.reqs = <<"storeZoneInRadius">>] @@
                 [coords |-> input]

\* parsedPolygon: parseWKT(z.coords)
ParseWktCall(p) ==
    /\ pc[p] = "wkt"
    /\ pc' = [pc EXCEPT ![p] = "idle"]
    /\ loc' = [loc EXCEPT ![p] = IdleLoc]
    /\ nRet' = nRet + 1
    /\ ret' = WktResult(loc[p].coords, parseWKT(WktText(loc[p].coords)))
    /\ UNCHANGED <<nCalls, netVars, sgisVars, cacheVars, pageVars, now>>

WktInit ==
    /\ pc = [p \in Procs |-> IF p \in Solo THEN "wkt" ELSE "idle"]
    /\ \E input \in WktInputs :
          loc = [p \in Procs |-> IF p \in Solo THEN WktLoc(input) ELSE IdleLoc]
    /\ ret = NoResult
    /\ fr = [p \in Procs |-> IdleFrame]
    /\ currentProxyIndex = 0
    /\ sgisAccessToken = NoToken
    /\ tokenExpiry = 0
    /\ polygonCache = <<>>
    /\ cachedFeatures = NoFeatures
    /\ env \in [build : {"rotating"}, sgisKey : {TRUE}, proj4 : {TRUE},
                shp : {TRUE}, vworldKey : {TRUE}, dataKey : {TRUE}]
    /\ app = NoApp
    /\ now = 0
    /\ nAuth = 0
    /\ nObj = 0
    /\ firstPut = <<>>
    /\ lastPut = <<>>
    /\ nCalls = 1
    /\ nRet = 0

WktNext ==
    \E p \in Solo : ParseWktCall(p)

WktSpec == WktInit /\ [][WktNext]_vars

\* -------------------------------------------------------- handleSearchZones
\* The coords a zone of the provider can carry: none, a polygon of one good
\* ring, one whose ring has a token that is no point.
TradeCoords ==
    { NoCoords,
      [prefix |-> WordPolygon, rings |-> <<GoodRing>>],
      [prefix |-> WordPolygon,
       rings |-> << [k \in 1 .. 3 |-> IF k = 2 THEN <<"x", " ", "3", "7">>
                                      ELSE <<"1", "2", "7", " ", "3", "7">>] >>] }
TradeItem(id, coords) == [id |-> id, type |-> "none", coords |-> coords]
TradeBodies ==
    { [fmt |-> "json", shape |-> "absent", items |-> <<>>],
      [fmt |-> "xml", shape |-> "error", items |-> <<>>],
      [fmt |-> "text", shape |-> "none", items |-> <<>>] }
    \cup { [fmt |-> "json", shape |-> "array",
            items |-> <<TradeItem("z1", c)>>] : c \in TradeCoords }
    \cup { [fmt |-> "json", shape |-> "array",
            items |-> <<TradeItem("z1", c), TradeItem("z2", NoCoords)>>] :
            c \in TradeCoords }

\* A trade zone left without a polygon.
TradePolygonNone(z) == <<>>
\* parsedPolygon: parseWKT(z.coords)
TradePolygon(z) == parseWKT(WktText(z.coords))
\* zones.map(z => ({ ...z, searchLat, searchLon, parsedPolygon, type }))
EnhanceTrade(zones) ==
    [k \in 1 .. Len(zones) |->
        [id |-> zones[k].id, coords |-> zones[k].coords,
         searchLat |-> SearchCoords.lat, searchLon |-> SearchCoords.lon,
         parsedPolygon |-> TradePolygon(zones[k]), type |-> "trade"]]

\* What the handler leaves: setFoundZones and the next step, or setError.
SearchResult(l, kind, why, zones) ==
    [op |-> "search", searchType |-> "trade", kind |-> kind, why |-> why,
     zones |-> zones, reqs |-> l.reqs]

\* handleSearchZones with searchType 'trade', up to the await inside
\* searchZones.
TradeSearchCall(p) ==
    /\ pc[p] = "idle"
    /\ nCalls < MaxCalls
    /\ nCalls' = nCalls + 1
    /\ IF DataKeyMissing(env)
       THEN Finish(p, SearchResult(IdleLoc, "error", "auth", <<>>))
       ELSE Issue(p, "trade", "zones", IdleLoc)
    /\ UNCHANGED <<currentProxyIndex, sgisVars, cacheVars, pageVars, now>>

\* The zone request has settled: the rest of searchZones, and of the handler.
TradeSearchSettled(p) ==
    /\ pc[p] = "trade"
    /\ FetchSettled(p)
    /\ IF fr[p].st = "failed"
       THEN Finish(p, SearchResult(loc[p], "error", "network", <<>>))
       ELSE \E body \in TradeBodies :
            LET parsed == ParseZones(env.build, body)
            IN  IF parsed.threw # "none"
                THEN Finish(p, SearchResult(loc[p], "error", parsed.threw,
                                            <<>>))
                ELSE IF Len(parsed.zones) = 0
                THEN Finish(p, SearchResult(loc[p], "error", "no_results",
                                            <<>>))
                ELSE Finish(p, SearchResult(loc[p], "done", "ok",
                                            EnhanceTrade(parsed.zones)))
    /\ UNCHANGED <<nCalls, currentProxyIndex, sgisVars, cacheVars, pageVars, now>>

SearchInit ==
    /\ pc = [p \in Procs |-> "idle"]
    /\ loc = [p \in Procs |-> IdleLoc]
    /\ ret = NoResult
    /\ fr = [p \in Procs |-> IdleFrame]
    /\ currentProxyIndex = 0
    /\ sgisAccessToken = NoToken
    /\ tokenExpiry = 0
    /\ polygonCache = <<>>
    /\ cachedFeatures = NoFeatures
    /\ env \in [build : {"rotating", "shapefile"}, sgisKey : {TRUE},
                proj4 : {TRUE}, shp : {TRUE},
                vworldKey : {TRUE}, dataKey : BOOLEAN]
    /\ app = NoApp
    /\ now = 0
    /\ nAuth = 0
    /\ nObj = 0
    /\ firstPut = <<>>
    /\ lastPut = <<>>
    /\ nCalls = 1
    /\ nRet = 0

\* The handler with either search type: the trade branch; or the search of
\* the districts and the resolution of the zones found.
SearchNext ==
    \E p \in Solo :
        \/ TradeSearchCall(p)
        \/ TradeSearchSettled(p)
        \/ FetchSettle(p)
        \/ FetchRead(p)
        \/ AdminCall(p)
        \/ AdminSidoSettled(p)
        \/ AdminSigunguSettled(p)
        \/ AdminDongSettled(p)
        \/ ResolveCall(p)
        \/ AuthSettled(p)
        \/ GeoSettled(p)
        \/ Bound1Settled(p)
        \/ Bound2Settled(p)
        \/ LocalCall(p)
        \/ LocalLoaded(p)

SearchSpec == SearchInit /\ [][SearchNext]_vars

\* ------------------------------------------------------ api/proxy: handler
\* The two versions of the handler.
ProxyVersions == {"proxy.js", "part_000"}
\* Object.keys(KEY_MAP), in order.
Placeholders ==
    << "CONFIDENTIAL_DATA_API_KEY", "CONFIDENTIAL_VWORLD_KEY",
       "CONFIDENTIAL_SGIS_ID", "CONFIDENTIAL_SGIS_SECRET",
       "CONFIDENTIAL_SEOUL_KEY" >>
\* KEY_MAP[placeholder]: the variable of the server's environment, "" when it
\* is not set.
RealKey(e, placeholder) ==
    IF placeholder = "CONFIDENTIAL_DATA_API_KEY"
    THEN IF e.dataKey THEN "d+k/=" ELSE ""
    ELSE IF placeholder = "CONFIDENTIAL_VWORLD_KEY"
    THEN IF e.vworldKey THEN "vk" ELSE ""
    ELSE IF placeholder = "CONFIDENTIAL_SGIS_ID"
    THEN IF e.sgisKey THEN "id" ELSE ""
    ELSE IF placeholder = "CONFIDENTIAL_SGIS_SECRET"
    THEN IF e.sgisKey THEN "s k" ELSE ""
    ELSE ""
\* encodeURIComponent(realKey)
EncodeURIComponent(key) ==
    IF key = "d+k/=" THEN "d%2Bk%2F%3D"
    ELSE IF key = "s k" THEN "s%20k"
    ELSE key

\* A url is the sequence of its pieces: other text, or a placeholder. The
\* query without url, or with an empty one, is <<>>.
MaxUrl == 3
UrlPieces == {"text", "CONFIDENTIAL_DATA_API_KEY", "CONFIDENTIAL_SGIS_ID"}
Urls == UNION { [1 .. n -> UrlPieces] : n \in 0 .. MaxUrl }

\* targetUrl.includes(placeholder)
UrlIncludes(url, placeholder) == \E k \in 1 .. Len(url) : url[k] = placeholder
\* A replacement of every occurrence.
ReplaceEvery(url, placeholder, by) ==
    [k \in 1 .. Len(url) |-> IF url[k] = placeholder THEN by ELSE url[k]]
\* targetUrl.replace(placeholder, by), the pattern being a string: the first
\* occurrence.
Replace(url, placeholder, by) ==
    LET first == CHOOSE k \in 1 .. Len(url) :
                    /\ url[k] = placeholder
                    /\ \A j \in 1 .. (k - 1) : url[j] # placeholder
    IN  IF UrlIncludes(url, placeholder)
        THEN [url EXCEPT ![first] = by]
        ELSE url

\* The forEach over the placeholders, from the i-th on.
RECURSIVE InjectKeys(_, _, _, _)
InjectKeys(version, e, url, i) ==
    IF i > Len(Placeholders) THEN url
    ELSE LET placeholder == Placeholders[i]
             realKey == RealKey(e, placeholder)
         IN  IF ~UrlIncludes(url, placeholder)
             THEN InjectKeys(version, e, url, i + 1)
             ELSE IF version = "part_000" /\ realKey = ""
             THEN InjectKeys(version, e, url, i + 1)
             ELSE InjectKeys(version, e,
                             Replace(url, placeholder,
                                     EncodeURIComponent(realKey)),
                             i + 1)

\* What the upstream fetch ends with: a rejection, a response whose text
\* cannot be read, or a response.
Upstreams ==
    { [kind |-> "reject", status |-> 0, body |-> "none"],
      [kind |-> "unread", status |-> 200, body |-> "none"] }
    \cup [kind : {"response"}, status : {200, 404, 500},
          body : {"json", "xml"}]

ProxyLoc(url, targetUrl, version) ==
    [reqs |-> <<>>, url |-> url, targetUrl |-> targetUrl,
     version |-> version]
\* What res has been given, and what was fetched for it.
ProxyResult(l, status, body, fetched, upstream) ==
    [op |-> "proxy", status |-> status, body |-> body, fetched |-> fetched,
     upstream |-> upstream, url |-> l.url, targetUrl |-> l.targetUrl,
     version |-> l.version]

\* handler(req, res) up to the await of fetch.
ProxyCall(p) ==
    /\ pc[p] = "idle"
    /\ nCalls < MaxCalls
    /\ nCalls' = nCalls + 1
    /\ \E url \in Urls, version \in ProxyVersions :
        IF Len(url) = 0
        THEN Finish(p, ProxyResult(ProxyLoc(url, <<>>, version), 400,
                                   "url_required", FALSE,
                                   [kind |-> "none", status |-> 0,
                                    body |-> "none"]))
        ELSE /\ pc' = [pc EXCEPT ![p] = "proxy"]
             /\ loc' = [loc EXCEPT ![p] =
                    ProxyLoc(url, InjectKeys(version, env, url, 1), version)]
             /\ ret' = NoResult
             /\ UNCHANGED <<fr, nRet>>
    /\ UNCHANGED <<currentProxyIndex, sgisVars, cacheVars, pageVars, now>>

\* fetch and response.text() have settled.
ProxySettled(p) ==
    /\ pc[p] = "proxy"
    /\ \E upstream \in Upstreams :
        IF upstream.kind = "response"
        THEN Finish(p, ProxyResult(loc[p], upstream.status, upstream.body,
                                   TRUE, upstream))
        ELSE Finish(p, ProxyResult(loc[p], 500, "proxy_error", TRUE,
                                   upstream))
    /\ UNCHANGED <<nCalls, currentProxyIndex, sgisVars, cacheVars, pageVars, now>>

ProxyInit ==
    /\ pc = [p \in Procs |-> "idle"]
    /\ loc = [p \in Procs |-> IdleLoc]
    /\ ret = NoResult
    /\ fr = [p \in Procs |-> IdleFrame]
    /\ currentProxyIndex = 0
    /\ sgisAccessToken = NoToken
    /\ tokenExpiry = 0
    /\ polygonCache = <<>>
    /\ cachedFeatures = NoFeatures
    /\ env \in [build : {"rotating"}, sgisKey : BOOLEAN, proj4 : {TRUE},
                shp : {TRUE}, vworldKey : {TRUE}, dataKey : BOOLEAN]
    /\ app = NoApp
    /\ now = 0
    /\ nAuth = 0
    /\ nObj = 0
    /\ firstPut = <<>>
    /\ lastPut = <<>>
    /\ nCalls = 0
    /\ nRet = 0

ProxyNext ==
    \E p \in Solo :
        \/ ProxyCall(p)
        \/ ProxySettled(p)

ProxySpec == ProxyInit /\ [][ProxyNext]_vars

\* ------------------------------------------------------------ App: handlers
\* The component's state is app; a handler in flight is an entry of app.tasks,
\* numbered in the order of the starts: its name, the await it stands at, what
\* its closure holds, and whether reset has been called since it started. An
\* awaited call of services/api.ts is taken by what it can settle with. The
\* element a handler is bound to is there only in its step (and, for a
\* disabled button, only while loading is false): those are the guards.
MaxHandlers == 3
TaskIds == 1 .. MaxHandlers
Handlers == DOMAIN app.tasks
Task(h, at, searchType, zone) ==
    [h |-> h, at |-> at, searchType |-> searchType, zone |-> zone,
     abandoned |-> FALSE]
StartTask(a, t) ==
    [a EXCEPT !.nStarted = @ + 1,
              !.tasks = [i \in DOMAIN @ \cup {a.nStarted + 1} |->
                            IF i = a.nStarted + 1 THEN t ELSE @[i]]]
EndTask(a, id) ==
    [a EXCEPT !.tasks = [i \in DOMAIN @ \ {id} |-> @[i]]]
AppStep(a) ==
    /\ app' = a
    /\ ret' = NoResult
    /\ UNCHANGED <<callVars, netVars, sgisVars, cacheVars, env, now>>

\* onChange of the address input; onClick of the two search-type buttons.
SetAddress ==
    /\ app.step = "input"
    /\ \E text \in {"", "addr"} : AppStep([app EXCEPT !.address = text])
SetSearchType ==
    /\ app.step = "input"
    /\ \E t \in {"trade", "admin"} : AppStep([app EXCEPT !.searchType = t])

\* onClick of a found zone: setPreviewZone(prev => prev?.trarNo === z.trarNo
\* ? null : z)
TogglePreview ==
    /\ app.step = "select_zone"
    /\ \E k \in 1 .. Len(app.foundZones) :
          AppStep([app EXCEPT !.previewZone =
                      IF @.trarNo = app.foundZones[k].trarNo
                      THEN NullZone ELSE app.foundZones[k]])

\* analyzeData(stores, largeFilter, midFilter): nothing of no stores, else
\* the statistics of the stores under the filters.
AnalyzeData(a, stores, filters) ==
    IF stores = 0 THEN a
    ELSE [a EXCEPT !.storeStats = [stores |-> stores, filters |-> filters]]

\* setSelectedLarge(...) in the result view, and the effect on [selectedLarge,
\* selectedMid, allRawStores] that follows it.
SelectFilter ==
    /\ app.step = "result"
    /\ app.storeStats # NullStats
    /\ app.tradeZone # NullZone
    /\ \E f \in {"null", "large"} :
          AppStep(AnalyzeData([app EXCEPT !.filters = f],
                              app.allRawStores, f))

\* reset: setStep("input"); setAddress(""); setFoundZones([]);
\* setTradeZone(null); setAllRawStores([]); setStoreStats(null);
\* setDataDate(null); ... The handlers in flight are from before it.
ResetState(a) ==
    [a EXCEPT !.step = "input", !.address = "", !.foundZones = <<>>,
              !.tradeZone = NullZone, !.allRawStores = 0,
              !.storeStats = NullStats, !.dataDate = "null",
              !.tasks = [i \in DOMAIN @ |-> [@[i] EXCEPT !.abandoned = TRUE]]]
Reset ==
    /\ app' = ResetState(app)
    /\ ret' = NoResult
    /\ UNCHANGED <<callVars, netVars, sgisVars, cacheVars, env, now>>

\* handleGeocode up to its await, or its return for no address.
HandleGeocode ==
    /\ app.step = "input"
    /\ app.nStarted < MaxHandlers
    /\ IF app.address = ""
       THEN AppStep([app EXCEPT !.error = "no_address"])
       ELSE AppStep(StartTask([app EXCEPT !.loading = TRUE,
                                          !.loadingMsg = "geocode",
                                          !.error = "null"],
                              Task("geocode", "searchAddress",
                                   app.searchType, NullZone)))

\* searchAddress has settled: the rest of handleGeocode.
GeocodeSettled(id) ==
    /\ id \in Handlers
    /\ app.tasks[id].h = "geocode"
    /\ \E outcome \in {"item", "throw"} :
          LET a1 == IF outcome = "item"
                    THEN [app EXCEPT !.resolvedAddress = "road",
                                     !.step = "verify_location"]
                    ELSE [app EXCEPT !.error = "message"]
          IN  AppStep(EndTask([a1 EXCEPT !.loading = FALSE], id))

\* handleSearchZones up to its first await.
HandleSearchZones ==
    /\ app.step = "verify_location"
    /\ ~app.loading
    /\ app.nStarted < MaxHandlers
    /\ AppStep(StartTask(
          [app EXCEPT !.loading = TRUE, !.error = "null",
                      !.loadingMsg = app.searchType],
          Task("search",
               IF app.searchType = "trade" THEN "searchZones"
               ELSE "searchAdminDistrict",
               app.searchType, NullZone)))

\* The zones of a search: the objects the handler builds from the n items
\* found, their polygons parsed or fetched.
NewZones(id, type, n, polygon) ==
    [k \in 1 .. n |->
        [search |-> id, trarNo |-> k, type |-> type, polygon |-> polygon]]

\* searchZones has settled (the trade branch to its end), or
\* searchAdminDistrict has (up to the await of Promise.all), or Promise.all
\* has: setFoundZones(enhancedZones), setStep('select_zone').
SearchSettled(id) ==
    /\ id \in Handlers
    /\ app.tasks[id].h = "search"
    /\ LET t == app.tasks[id] IN
       \E outcome \in {"throw", "one", "two"} : \E polygon \in BOOLEAN :
          LET n == IF outcome = "one" THEN 1 ELSE 2
              failed == [app EXCEPT !.error = "message", !.loading = FALSE]
              found(zones) == [app EXCEPT !.foundZones = zones,
                                          !.step = "select_zone",
                                          !.loading = FALSE]
          IN  IF t.at = "searchZones"
              THEN /\ polygon
                   /\ IF outcome = "throw" THEN AppStep(EndTask(failed, id))
                      ELSE AppStep(EndTask(
                              found(NewZones(id, "trade", n, TRUE)), id))
              ELSE IF t.at = "searchAdminDistrict"
              THEN /\ polygon
                   /\ IF outcome = "throw" THEN AppStep(EndTask(failed, id))
                      ELSE AppStep(
                              [app EXCEPT
                                  !.loadingMsg = "polygons",
                                  !.tasks[id] =
                                      [t EXCEPT !.at = "Promise.all",
                                                !.zone.trarNo = n]])
              ELSE /\ outcome # "throw"
                   /\ n = t.zone.trarNo
                   /\ AppStep(EndTask(
                         found(NewZones(id, "admin", n, polygon)), id))

\* handleAnalyzeZone(z) up to its await.
HandleAnalyzeZone ==
    /\ app.step = "select_zone"
    /\ app.nStarted < MaxHandlers
    /\ \E k \in 1 .. Len(app.foundZones) :
          /\ app.previewZone.trarNo = app.foundZones[k].trarNo
          /\ AppStep(StartTask(
                [app EXCEPT !.loading = TRUE, !.loadingMsg = "analyze",
                            !.error = "null",
                            !.tradeZone = app.foundZones[k],
                            !.step = "result", !.filters = "null"],
                Task("analyze",
                     IF app.foundZones[k].type = "admin"
                     THEN "fetchStoresInAdmin" ELSE "fetchStores",
                     app.searchType, app.foundZones[k])))

\* (msg) => setLoadingMsg(msg), called by the pagination of the stores.
AnalyzeProgress(id) ==
    /\ id \in Handlers
    /\ app.tasks[id].h = "analyze"
    /\ app.loadingMsg # "progress"
    /\ AppStep([app EXCEPT !.loadingMsg = "progress"])

\* const rawDate = stdrYm || stores[0]?.stdrYm || selectedZone.stdrYm || "",
\* formatted: "null" stands for no date here, the zones carrying none.
FmtDate(stdrYm, stores) ==
    IF stdrYm # "" THEN stdrYm
    ELSE IF stores > 0 THEN "store_ym" ELSE ""

\* A handleAnalyzeZone whose catch is not followed by a finally.
AnalyzeSettledNoFinally(id) ==
    /\ id \in Handlers
    /\ app.tasks[id].h = "analyze"
    /\ \E outcome \in {"throw", "result"} :
       \E stores \in {0, 1} : \E stdrYm \in {"", "ym"} :
          IF outcome = "throw"
          THEN /\ stores = 0 /\ stdrYm = ""
               /\ AppStep(EndTask([app EXCEPT !.error = "detail_message"],
                                  id))
          ELSE AppStep(EndTask(
                  AnalyzeData([app EXCEPT !.dataDate = FmtDate(stdrYm, stores),
                                          !.allRawStores = stores,
                                          !.loading = FALSE],
                              stores, app.filters), id))

\* fetchStores or fetchStoresInAdmin has settled: the rest of
\* handleAnalyzeZone, and the effect on allRawStores.
AnalyzeSettled(id) ==
    /\ id \in Handlers
    /\ app.tasks[id].h = "analyze"
    /\ \E outcome \in {"throw", "result"} :
       \E stores \in {0, 1} : \E stdrYm \in {"", "ym"} :
          IF outcome = "throw"
          THEN /\ stores = 0 /\ stdrYm = ""
               /\ AppStep(EndTask([app EXCEPT !.error = "detail_message",
                                              !.loading = FALSE], id))
          ELSE AppStep(EndTask(
                  AnalyzeData([app EXCEPT !.dataDate = FmtDate(stdrYm, stores),
                                          !.allRawStores = stores,
                                          !.loading = FALSE],
                              stores, app.filters), id))

AppInit ==
    /\ pc = [p \in Procs |-> "idle"]
    /\ loc = [p \in Procs |-> IdleLoc]
    /\ ret = NoResult
    /\ fr = [p \in Procs |-> IdleFrame]
    /\ currentProxyIndex = 0
    /\ sgisAccessToken = NoToken
    /\ tokenExpiry = 0
    /\ polygonCache = <<>>
    /\ cachedFeatures = NoFeatures
    /\ env \in [build : {"rotating"}, sgisKey : {TRUE}, proj4 : {TRUE},
                shp : {TRUE}, vworldKey : {TRUE}, dataKey : {TRUE}]
    /\ app = NoApp
    /\ now = 0
    /\ nAuth = 0
    /\ nObj = 0
    /\ firstPut = <<>>
    /\ lastPut = <<>>
    /\ nCalls = 0
    /\ nRet = 0

AppNext ==
    \/ SetAddress
    \/ SetSearchType
    \/ TogglePreview
    \/ SelectFilter
    \/ Reset
    \/ HandleGeocode
    \/ HandleSearchZones
    \/ HandleAnalyzeZone
    \/ \E id \in TaskIds :
        \/ GeocodeSettled(id)
        \/ SearchSettled(id)
        \/ AnalyzeProgress(id)
        \/ AnalyzeSettled(id)

AppSpec == AppInit /\ [][AppNext]_vars

\* Every awaited call settles: a request ends with a response or an error.
AppFairSpec ==
    /\ AppSpec
    /\ \A id \in TaskIds :
          /\ WF_vars(GeocodeSettled(id))
          /\ WF_vars(SearchSettled(id))
          /\ WF_vars(AnalyzeSettled(id))

\* ---------------------------------------------------------------- properties
NoDup(s) == \A a, b \in 1 .. Len(s) : a # b => s[a] # s[b]
Range(s) == {s[k] : k \in 1 .. Len(s)}
IsPrefix(s, t) == Len(s) <= Len(t) /\ \A k \in 1 .. Len(s) : s[k] = t[k]

\* The step in which caller p calls fetchLocalAdminPolygon, and the zone it
\* passes: the call either suspends on a request or ends at once.
StartsResolve(p) ==
    /\ pc[p] = "idle"
    /\ nCalls' = nCalls + 1
    /\ \/ pc'[p] \in {"auth", "geo", "load"}
       \/ nRet' = nRet + 1 /\ ret'.op = "resolve"
CalledZone(p) == IF pc'[p] # "idle" THEN loc'[p].zone ELSE ret'.zone

\* C1: whatever the upstream does (no credential, authentication failing,
\* every path failing, a body that is not JSON, no geocode result, no features,
\* a malformed or missing geometry), fetchLocalAdminPolygon returns - it never
\* throws - and what it returns without a boundary is the empty polygon.
C1_NeverRaises ==
    ret.op = "resolve" =>
        /\ ret.kind = "returned"
        /\ ret.why \notin {"ok", "cached"} => ret.value = EmptyPolygon
        /\ ret.why \in {"ok", "cached"} => ret.value # EmptyPolygon

C1_CaughtGeometry ==
    /\ ret.op = "resolve"
    /\ ret.why = "geometry"
    /\ ret.reqs = <<"auth", "geocode", "boundary_cur", "boundary_prev">>

\* The requests of the statistics service, in the order of the code, and the
\* strategy a request belongs to.
StatisticsRequests == <<"auth", "geocode", "boundary_cur", "boundary_prev">>
Strategy(req) ==
    IF req \in Range(StatisticsRequests) THEN "statistics"
    ELSE IF req = "feature_query" THEN "feature_service"
    ELSE "local_dataset"

C3_GetReturnsLastPut ==
    [][\A p \in Procs :
          StartsResolve(p) =>
              IF CalledZone(p).mainTrarNm \in DOMAIN lastPut
              THEN /\ nRet' = nRet + 1
                   /\ ret'.hit
                   /\ ret'.value = lastPut[CalledZone(p).mainTrarNm]
              ELSE pc'[p] # "idle" \/ ~ret'.hit]_vars

C3_HitOnReplacedEntry ==
    /\ ret.op = "resolve"
    /\ ret.hit
    /\ ret.value = lastPut[ret.zone.mainTrarNm]
    /\ ret.value # firstPut[ret.zone.mainTrarNm].polygon

GetsToken(p) ==
    /\ env.build = "rotating"
    /\ StartsResolve(p)
    /\ CalledZone(p).mainTrarNm \notin DOMAIN polygonCache

\* getSgisToken has its token from the authentication response.
TokenStored(p) ==
    /\ pc[p] = "auth"
    /\ pc'[p] = "geo"

C6_OnePassOverPaths ==
    \A p \in Procs :
        /\ fr[p].st # "idle" => NoDup(fr[p].tried)
        /\ fr[p].st = "ok" =>
              fr[p].okPath = fr[p].tried[Len(fr[p].tried)]
        /\ fr[p].st = "failed" =>
              /\ Range(fr[p].tried) = Paths
              /\ fr[p].thrown.path = fr[p].tried[Len(fr[p].tried)]

\* C7: searchAddress makes its attempts one at a time in the order road,
\* parcel, place; an attempt starts only when every attempt before it has
\* ended without items; and the first attempt to bring items ends the call,
\* which returns the first of them.
C7_SequentialFirstHit ==
    /\ \A p \in Procs :
          pc[p] = "addr" =>
              /\ Len(loc[p].reqs) = Len(loc[p].outs) + 1
              /\ IsPrefix(loc[p].reqs, SearchOrder)
              /\ \A k \in 1 .. Len(loc[p].outs) : loc[p].outs[k] # "items"
    /\ (ret.op = "address" /\ ret.kind = "returned") =>
          /\ IsPrefix(ret.reqs, SearchOrder)
          /\ Len(ret.reqs) = Len(ret.outs)
          /\ \A k \in 1 .. Len(ret.outs) :
                ret.outs[k] = "items" <=> k = Len(ret.outs)
          /\ ret.item = AddrItem(ret.reqs[Len(ret.reqs)], 1)

C7_FoundAsPlace ==
    /\ ret.op = "address"
    /\ ret.kind = "returned"
    /\ ret.reqs = SearchOrder
    /\ ret.item = AddrItem("place", 1)

\* C8: an attempt answered NOT_FOUND adds nothing to the diagnostics, one that
\* fails otherwise adds one entry, and the error thrown when all three
\* attempts have brought nothing carries the entries collected; a call that
\* returns an item surfaces none.
C8_DiagnosticsSurfaced ==
    ret.op = "address" =>
        /\ Len(ret.errorDetails) =
              Cardinality({k \in 1 .. Len(ret.outs) :
                              ret.outs[k] \notin {"not_found", "items"}})
        /\ (ret.kind = "raised" /\ ret.why = "not_found") =>
              ret.message.details = ret.errorDetails
        /\ ret.kind = "returned" => ret.message = NoMessage

C10_NeverEmpty ==
    ret.op = "zones" =>
        /\ ret.kind = "returned" => Len(ret.zones) > 0
        /\ ret.body.fmt = "json" =>
              IF Len(ret.body.items) = 0
              THEN ret.kind = "raised" /\ ret.why = "no_results"
              ELSE /\ ret.kind = "returned"
                   /\ ret.zones = AsTrade(ret.body.items)

\* The call got as far as the district list of a city with districts.
AdminListed == ret.op = "admin" /\ Len(ret.reqs) = 3 /\ Len(ret.dongs) > 0
\* No district of the list passes the test of the hint.
HintMatchesNone ==
    \A k \in 1 .. Len(ret.dongs) :
        ~DongMatches(env.build, ret.dongs[k], Part(ret.parts, 3))

\* C11: with province and city resolved and the districts of the city listed,
\* an empty hint or a hint that matches no district yields one zone per
\* district, in the provider's order; the call does not fail for the hint.
C11_FullListWithoutMatch ==
    (AdminListed /\ (Len(Part(ret.parts, 3)) = 0 \/ HintMatchesNone)) =>
        /\ ret.kind = "returned"
        /\ Len(ret.zones) = Len(ret.dongs)
        /\ \A k \in 1 .. Len(ret.dongs) :
              ret.zones[k].adminCode = ret.dongs[k].adongCd

\* C12: no province matching ends in the not-found error after the province
\* lookup alone; a province but no city matching ends in it after the province
\* and the city lookup alone; neither returns a list.
C12_NotFoundWithoutFallback ==
    ret.op = "admin" =>
        /\ (Len(ret.reqs) = 1 /\ ret.why # "network"
              /\ FindSido(ret.sidos, Part(ret.parts, 1)) = 0) =>
                /\ ret.kind = "raised"
                /\ ret.why \in AdminNotFound
                /\ ret.zones = <<>>
        /\ (Len(ret.reqs) >= 2 /\ ret.tSido # 0
              /\ ~(Len(ret.reqs) = 2 /\ ret.why = "network")
              /\ \A k \in 1 .. Len(ret.sigungus) :
                    ~Includes(ret.sigungus[k].signguNm, Part(ret.parts, 2))
                    /\ ~(env.build = "rotating"
                         /\ Includes(Part(ret.parts, 2),
                                     ret.sigungus[k].signguNm))) =>
                /\ ret.kind = "raised"
                /\ ret.why \in AdminNotFound
                /\ ret.reqs = <<"mega", "cty">>
                /\ ret.zones = <<>>
        /\ ret.tSido = 0 => Len(ret.reqs) <= 1

C12_CityNotFound ==
    /\ ret.op = "admin"
    /\ ret.reqs = <<"mega", "cty">>
    /\ ret.tSido # 0
    /\ Len(ret.sigungus) > 0
    /\ ret.kind = "raised"
    /\ ret.why \in AdminNotFound

\* The batches a listing of totalPages pages has, the zero entries at the end
\* of a sequence, and the sum of a sequence.
NumBatches(build, totalPages) ==
    (totalPages - 1 + BatchSize(build) - 1) \div BatchSize(build)
RECURSIVE TrailingZeros(_)
TrailingZeros(h) ==
    IF Len(h) = 0 \/ h[Len(h)] # 0 THEN 0
    ELSE 1 + TrailingZeros(SubSeq(h, 1, Len(h) - 1))
RECURSIVE Sum(_)
Sum(h) == IF Len(h) = 0 THEN 0 ELSE Head(h) + Sum(Tail(h))

\* C13: past the first page, pagination ends before the last batch exactly
\* when the last two batches run had no usable page each; a batch with a
\* usable page sets the count of failed batches back to zero; the pages
\* requested are those of the batches run and no others; and the call returns
\* the stores it has collected.
C13_StopAfterTwoEmptyBatches ==
    /\ (ret.op = "stores" /\ ret.kind = "returned" /\ ret.totalPages > 1) =>
          LET h == ret.valids
              n == Len(h)
              last == IF 1 + n * BatchSize(env.build) < ret.totalPages
                      THEN 1 + n * BatchSize(env.build) ELSE ret.totalPages
          IN  /\ n >= 1
              /\ n <= NumBatches(env.build, ret.totalPages)
              /\ n < NumBatches(env.build, ret.totalPages) =>
                    (n >= 2 /\ h[n] = 0 /\ h[n - 1] = 0)
              /\ \A k \in 1 .. (n - 1) :
                    (h[k] = 0 /\ h[k + 1] = 0) => k + 1 = n
              /\ ret.requested = [k \in 1 .. (last - 1) |-> k + 1]
              /\ ret.consecutiveErrors = TrailingZeros(h)
              /\ ret.stores <= 1 + Sum(h)
              /\ ret.stores >= Sum(h) - n
    /\ \A p \in Procs :
          pc[p] \in {"batch", "sleep"} =>
              /\ loc[p].consecutiveErrors = TrailingZeros(loc[p].valids)
              /\ loc[p].consecutiveErrors < 2

C13_StoppedAfterReset ==
    /\ ret.op = "stores"
    /\ ret.kind = "returned"
    /\ Len(ret.valids) = 4
    /\ ret.valids[1] = 0
    /\ ret.valids[2] > 0
    /\ ret.valids[3] = 0
    /\ ret.valids[4] = 0
    /\ Len(ret.valids) < NumBatches(env.build, ret.totalPages)

\* The callers whose fetchWithRetry has a request on the network.
InFlight == {p \in Procs : fr[p].st \in {"waiting", "reading"}}

\* C14: network operations are in flight together only as the page fetches of
\* one batch; the boundary resolutions of the zones a search found do not run
\* theirs concurrently, so among them at most one request is in flight.
C14_ConcurrencyOnlyInBatches ==
    Cardinality(InFlight) <= 1

\* C15: a body of searchZones that begins with "<" is an XML error document:
\* the call throws the error read from it and returns no zones; any other
\* body goes to JSON.parse.
C15_XmlBodyIsError ==
    (ret.op = "zones" /\ ret.body # NoBody) =>
        IF ret.body.fmt = "xml"
        THEN /\ ret.kind = "raised"
             /\ ret.why = "xml_error"
             /\ ret.zones = <<>>
        ELSE ret.why \in {"ok", "no_results", "parse"}

\* The rings of an input, as texts of WKT would count them, and the tokens of
\* a ring that are points.
GoodIn(ring) == {k \in 1 .. Len(ring) : ring[k] \in GoodTokens}

\* C16: parseWKT keeps the rings of the text and, of each ring, the tokens
\* that are points: a text of good tokens only comes back with its ring and
\* point counts, and a token that is not a point is left out of its ring while
\* the ring stays.
C16_CountsKeptBadTokensDropped ==
    (ret.op = "parseWKT" /\ Len(ret.input.rings) > 0) =>
        /\ ret.kind = "returned"
        /\ Len(ret.value) = Len(ret.input.rings)
        /\ \A r \in 1 .. Len(ret.value) :
              Len(ret.value[r]) = Cardinality(GoodIn(ret.input.rings[r]))

\* C17: a polygon parseWKT produces has no rings, or has a ring of three
\* points or more; it is not null and not an error.
C17_EmptyOrThreePoints ==
    ret.op = "parseWKT" =>
        /\ ret.kind = "returned"
        /\ \/ Len(ret.value) = 0
           \/ \E r \in 1 .. Len(ret.value) : Len(ret.value[r]) >= 3

\* The raw rings behind the polygon a dataset resolution has just returned:
\* those of the feature the find took from the loaded features.
RawCoords ==
    SelectCoordsLocal(
        cachedFeatures.features[
            FindFeature(env.build, cachedFeatures.features, ret.zone)
        ].geometry).coords
LocalReturned ==
    /\ ret.op = "resolve"
    /\ ret.why = "ok"
    /\ env.build \in {"shapefile", "plainfilter"}

\* C18: a raw pair whose first component is at most 180 comes back as the
\* swapped pair [second, first] and nothing else, whatever its second
\* component.
C18_SwapOnlyUpTo180 ==
    LocalReturned =>
        \A r \in 1 .. Len(RawCoords) : \A k \in 1 .. Len(RawCoords[r]) :
            RawCoords[r][k][1] <= 180 =>
                ret.value.rings[r][k] =
                    << RawCoords[r][k][2], RawCoords[r][k][1] >>

\* C19: a raw pair whose first component is beyond 180 in magnitude comes back
\* projected, from the older grid when the magnitude is below 600000 and from
\* the newer one otherwise, as [lat, lon] with -90 <= lat <= 90 and
\* -180 <= lon <= 180.
Magnitude(x) == IF x < 0 THEN 0 - x ELSE x
RECURSIVE SumAxis(_, _)
SumAxis(ring, axis) ==
    IF Len(ring) = 0 THEN 0
    ELSE Head(ring)[axis] + SumAxis(Tail(ring), axis)
ScaledDistance(ring) ==
    LET dx == SumAxis(ring, 1) - Len(ring) * SearchCoords.lon
        dy == SumAxis(ring, 2) - Len(ring) * SearchCoords.lat
    IN  dx * dx + dy * dy
Nearer(ringA, ringB) ==
    ScaledDistance(ringA) * Len(ringB) * Len(ringB)
        < ScaledDistance(ringB) * Len(ringA) * Len(ringA)
NamedLike(zone) ==
    { k \in 1 .. Len(cachedFeatures.features) :
        cachedFeatures.features[k].name =
            NameParts(zone.mainTrarNm)[Len(NameParts(zone.mainTrarNm))] }

\* C20: of two features of the dataset that bear the zone's district name, the
\* dataset resolution returns the one whose outer ring has its centroid
\* nearer to the searched point, in whichever order the dataset holds them.
C20_NearerCentroidSelected ==
    (LocalReturned /\ Cardinality(NamedLike(ret.zone)) = 2) =>
        \A k \in NamedLike(ret.zone) :
            (\A j \in NamedLike(ret.zone) \ {k} :
                Nearer(cachedFeatures.features[k].geometry.coordinates[1],
                       cachedFeatures.features[j].geometry.coordinates[1]))
            => ret.value.rings =
                 MapRingsLocal(env.build,
                               cachedFeatures.features[k].geometry.coordinates,
                               env.proj4)

\* C21: a trade search makes the zone request and no other - no token, no
\* geocode, no boundary request, no load of the dataset - and the polygon of
\* each zone it finds is parseWKT of the zone's coords; a boundary resolution
\* is made for a zone with an administrative code only.
C21_TradeSearchParsesOnly ==
    /\ \A p \in Procs : pc[p] = "trade" => loc[p].reqs = <<"zones">>
    /\ ret.op = "search" =>
        /\ ret.reqs \in {<<>>, <<"zones">>}
        /\ \A k \in 1 .. Len(ret.zones) :
            /\ ret.zones[k].type = "trade"
            /\ ret.zones[k].parsedPolygon =
                    parseWKT(WktText(ret.zones[k].coords))
    /\ ret.op = "resolve" => (ret.zone \in Zones /\ ret.zone.adminCode # <<>>)

C21_TradeZoneWithPolygon ==
    /\ ret.op = "search"
    /\ ret.kind = "done"
    /\ ret.reqs = <<"zones">>
    /\ Len(ret.zones) = 2
    /\ Len(ret.zones[1].parsedPolygon) = 1
    /\ Len(ret.zones[1].parsedPolygon[1]) = 3
    /\ ret.zones[2].parsedPolygon = <<>>

\* C22: the proxy fetches the url with every occurrence of a placeholder whose
\* secret is configured replaced by that secret (in its URL encoding), and
\* answers with the status and the body of the upstream response; without a
\* url it answers 400 and fetches nothing.
RECURSIVE EveryKeyInjected(_, _, _)
EveryKeyInjected(e, url, i) ==
    IF i > Len(Placeholders) THEN url
    ELSE EveryKeyInjected(
            e,
            IF RealKey(e, Placeholders[i]) = "" THEN url
            ELSE ReplaceEvery(url, Placeholders[i],
                              EncodeURIComponent(RealKey(e, Placeholders[i]))),
            i + 1)
C22_EveryPlaceholderReplaced ==
    ret.op = "proxy" =>
        IF Len(ret.url) = 0
        THEN ret.status = 400 /\ ~ret.fetched
        ELSE /\ ret.fetched
             /\ \A k \in 1 .. Len(ret.url) :
                    RealKey(env, ret.url[k]) # "" =>
                        ret.targetUrl[k] =
                            EncodeURIComponent(RealKey(env, ret.url[k]))
             /\ ret.upstream.kind = "response" =>
                    /\ ret.status = ret.upstream.status
                    /\ ret.body = ret.upstream.body

\* C23: the boundary is asked for the current year first and, only from
\* there and with the same code and token, for the year before; a resolution
\* makes two boundary requests at most, none when the geocode step gave no
\* code, and it concludes that there are no features only after the request
\* for the year before - with features in the first response there is no
\* second request.
BoundaryRequests(reqs) ==
    SelectSeq(reqs, LAMBDA r : r \in {"boundary_cur", "boundary_prev"})
C23_PreviousYearOnlyAfterEmpty ==
    /\ [](ret.op = "resolve" /\ env.build = "rotating" /\ ~ret.hit =>
            /\ IsPrefix(BoundaryRequests(ret.reqs),
                        <<"boundary_cur", "boundary_prev">>)
            /\ ret.why \in {"geo_noresult", "geo_net", "geo_nonjson"} =>
                    BoundaryRequests(ret.reqs) = <<>>
            /\ ret.why = "nofeatures" =>
                    BoundaryRequests(ret.reqs) =
                        <<"boundary_cur", "boundary_prev">>
            /\ (ret.value # EmptyPolygon
                    /\ BoundaryRequests(ret.reqs) = <<"boundary_cur">>) =>
                    ret.why = "ok")
    /\ [][\A p \in Procs :
            (pc'[p] = "bound2" /\ pc[p] # "bound2") =>
                /\ pc[p] = "bound1"
                /\ fr[p].st # "failed"
                /\ loc'[p].token = loc[p].token
                /\ loc'[p].admCd = loc[p].admCd
                /\ loc'[p].zone = loc[p].zone]_vars

C23_BothYearsEmpty ==
    /\ ret.op = "resolve"
    /\ ret.why = "nofeatures"
    /\ env.build = "rotating"
    /\ BoundaryRequests(ret.reqs) = <<"boundary_cur", "boundary_prev">>

\* C24: getSgisToken has no single-flight guard. A call that finds no valid
\* token makes its own authentication request, whoever else is waiting for
\* one; and each authentication response that brings a token overwrites the
\* cached token and expiry with its own, so that after two of them the cache
\* holds those of the one that arrived last.
C24_NoSingleFlight ==
    [][\A p \in Procs :
          /\ (/\ StartsResolve(p)
              /\ ~TokenValid(sgisAccessToken, tokenExpiry, now)
              /\ ~(ret'.op = "resolve" /\ ret'.hit)) =>
                    /\ pc'[p] = "auth"
                    /\ loc'[p].reqs = <<"auth">>
          /\ (pc[p] = "auth" /\ pc'[p] = "geo") =>
                    /\ nAuth' = nAuth + 1
                    /\ sgisAccessToken' = nAuth'
                    /\ loc'[p].token = sgisAccessToken'
                    /\ tokenExpiry' \in
                         {now + DefaultTimeoutMs, now + 2 * TokenBufferMs}]_vars

C24_TwoRefreshesRaced ==
    /\ loc["p1"].token = 1
    /\ loc["p2"].token = 2
    /\ loc["p1"].reqs[1] = "auth"
    /\ loc["p2"].reqs[1] = "auth"
    /\ sgisAccessToken = 2
    /\ nAuth = 2

\* C25: the dataset is loaded with success once at most, in any interleaving
\* of the calls; and a call made once the features are cached starts no load.
C25_DatasetLoadedOnce ==
    [][\A p \in Procs :
          /\ (/\ pc[p] = "load"
              /\ pc'[p] = "idle"
              /\ ret'.why # "load"
              /\ cachedFeatures'.loaded) => ~cachedFeatures.loaded
          /\ (StartsResolve(p) /\ cachedFeatures.loaded) =>
                pc'[p] # "load"]_vars

\* C26: with the calls one after another, a call starts on the remembered
\* path; the remembered path is the one of the latest attempt that brought
\* the text; a call that fails on every path leaves it as it found it; and it
\* is the index of a path.
C26_RememberedPath ==
    /\ [](currentProxyIndex \in 0 .. (NumPaths - 1))
    /\ [][\A p \in Procs :
            env.build = "rotating" =>
                /\ (pc[p] = "idle" /\ pc'[p] = "fetching") =>
                        fr'[p].idx = currentProxyIndex
                /\ (fr[p].st # "ok" /\ fr'[p].st = "ok") =>
                        currentProxyIndex' = fr'[p].okPath
                /\ (fr[p].st # "failed" /\ fr'[p].st = "failed") =>
                        currentProxyIndex' = fr[p].tried[1]]_vars

\* C27, as claimed: when an attempt of a structured category (road, parcel)
\* ended in an error other than not-found, searchAddress does not return a
\* match of a later category.
AttemptErrors == {"error", "malformed", "network"}
C27_NoMatchAfterStructuredError ==
    (ret.op = "address" /\ ret.kind = "returned") =>
        \A k \in 1 .. (Len(ret.outs) - 1) :
            SearchType(ret.reqs[k]) = "ADDRESS" =>
                ret.outs[k] \notin AttemptErrors

\* C27, amended: an attempt that ends without items, by not-found or by an
\* error, is followed by the attempt of the next category; its error is
\* recorded and nothing more, so that the first match of a later category is
\* returned, and the call fails only after all three categories. A match is
\* never replaced: it ends the call.
C27_ErrorsDoNotStopTheSearch ==
    ret.op = "address" =>
        /\ Len(ret.errorDetails) =
              Cardinality({k \in 1 .. Len(ret.outs) :
                              ret.outs[k] \in AttemptErrors \cup {"ok_empty"}})
        /\ ret.kind = "returned" =>
              /\ ret.outs[Len(ret.outs)] = "items"
              /\ \A k \in 1 .. (Len(ret.outs) - 1) : ret.outs[k] # "items"
              /\ ret.item.category = ret.reqs[Len(ret.reqs)]
        /\ (ret.kind = "raised" /\ ret.why = "not_found") =>
              /\ ret.reqs = <<"road", "parcel", "place">>
              /\ Len(ret.outs) = 3

C27_MatchAfterRoadError ==
    /\ ret.op = "address"
    /\ ret.kind = "returned"
    /\ ret.outs = <<"network", "items">>
    /\ ret.item.category = "parcel"

\* C28: the province and the city taken are each the first of the provider's
\* list whose name contains the text asked for or is contained in it, and the
\* three lists are asked for one after another.
FirstBothWays(names, text) ==
    LET hit(k) == Includes(names[k], text) \/ Includes(text, names[k])
    IN  IF \E k \in 1 .. Len(names) : hit(k)
        THEN CHOOSE k \in 1 .. Len(names) :
                hit(k) /\ \A j \in 1 .. (k - 1) : ~hit(j)
        ELSE 0
C28_BothWaysAtBothTiers ==
    ret.op = "admin" =>
        /\ IsPrefix(ret.reqs, <<"mega", "cty", "admi">>)
        /\ ret.tSido =
              FirstBothWays([k \in 1 .. Len(ret.sidos) |->
                                ret.sidos[k].ctprvnNm], Part(ret.parts, 1))
        /\ ret.tSigungu =
              FirstBothWays([k \in 1 .. Len(ret.sigungus) |->
                                ret.sigungus[k].signguNm], Part(ret.parts, 2))

\* C29: from a MultiPolygon feature a resolution returns one ring alone, the
\* outer ring of the first member whose outer ring has the most points; the
\* inner rings and the other members are left out.
RawGeometry ==
    cachedFeatures.features[
        FindFeature(env.build, cachedFeatures.features, ret.zone)
    ].geometry
OuterOfLargest(geometry) ==
    LargestMember(geometry.coordinates, 1, 0, <<>>)[1]
C29_LargestOuterRingOnly ==
    /\ (LocalReturned /\ RawGeometry.type = "MultiPolygon") =>
          ret.value.rings =
              MapRingsLocal(env.build, <<OuterOfLargest(RawGeometry)>>,
                            env.proj4)
    /\ (/\ ret.op = "resolve" /\ ret.why = "ok" /\ ~ret.hit
        /\ env.build = "rotating") =>
          \E g \in Geometries :
              /\ g.kind = "ok" /\ Len(g.coordinates) > 0
              /\ \/ /\ g.type = "MultiPolygon"
                    /\ ret.value.rings =
                          <<MapRingSgis(OuterOfLargest(g), env.proj4)>>
                 \/ /\ g.type = "Polygon"
                    /\ ret.value.rings =
                          <<MapRingSgis(g.coordinates[1], env.proj4)>>

\* C30: without the projection library a resolution of a feature that has
\* geometry neither fails nor returns the empty polygon: every ring comes back
\* with as many points as it has, each the raw pair with its two components
\* swapped.
Swapped(ring) == [k \in 1 .. Len(ring) |-> << ring[k][2], ring[k][1] >>]
FoundFeature ==
    IF cachedFeatures.loaded
    THEN FindFeature(env.build, cachedFeatures.features, ret.zone)
    ELSE 0
HasGeometry ==
    /\ FoundFeature # 0
    /\ LET sel == SelectCoordsLocal(
                      cachedFeatures.features[FoundFeature].geometry)
       IN  ~sel.threw /\ Len(sel.coords) > 0
C30_SwappedWithoutLibrary ==
    (ret.op = "resolve" /\ ~env.proj4) =>
        /\ (env.build \in {"shapefile", "plainfilter"} /\ HasGeometry) =>
              /\ ret.kind = "returned"
              /\ ret.why = "ok"
              /\ Len(ret.value.rings) = Len(RawCoords)
              /\ \A r \in 1 .. Len(RawCoords) :
                    /\ Len(ret.value.rings[r]) = Len(RawCoords[r])
                    /\ ret.value.rings[r] = Swapped(RawCoords[r])
        /\ (env.build = "rotating" /\ ret.why = "ok") =>
              /\ ret.kind = "returned"
              /\ \E g \in Geometries :
                    /\ g.kind = "ok" /\ Len(g.coordinates) > 0
                    /\ \E raw \in { IF g.type = "MultiPolygon"
                                    THEN g.coordinates[k][1]
                                    ELSE g.coordinates[k] :
                                    k \in 1 .. Len(g.coordinates) } :
                          /\ Len(raw) > 0
                          /\ ret.value.rings = <<Swapped(raw)>>
C30_GridPairsSwapped ==
    /\ ret.op = "resolve"
    /\ ret.why = "ok"
    /\ ~env.proj4
    /\ env.build = "rotating"
    /\ ret.value.rings[1] =
          << <<1952000, 953000>>, <<1952000, 954000>>, <<1953000, 954000>> >>

\* C31: the progress callback is called once per batch, before any page of
\* the batch is requested, with the first page X and the last page Y of the
\* batch and the number of pages N, 2 <= X <= Y <= N and Y - X + 1 at most
\* the batch size; X grows from call to call, and there is no call when the
\* result has one page.
ProgressAsBatches(build, progress, requested, totalPages) ==
    /\ totalPages <= 1 => progress = <<>>
    /\ (requested # <<>>) => (progress # <<>>)
    /\ \A k \in 1 .. Len(progress) :
          LET c == progress[k]
              size == c.y - c.x + 1
          IN  /\ 2 <= c.x /\ c.x <= c.y /\ c.y <= c.n
              /\ c.n = totalPages
              /\ size <= BatchSize(build)
              /\ k > 1 => progress[k - 1].x < c.x
              /\ c.at = IF k = 1 THEN 0
                        ELSE progress[k - 1].at
                             + (progress[k - 1].y - progress[k - 1].x + 1)
              /\ Len(requested) >= c.at + size
              /\ \A j \in 1 .. size : requested[c.at + j] = c.x + j - 1
              /\ k = Len(progress) => Len(requested) = c.at + size
C31_ProgressOncePerBatch ==
    /\ \A p \in Procs :
          pc[p] \in {"batch", "sleep"} =>
              ProgressAsBatches(env.build, loc[p].progress, loc[p].requested,
                                loc[p].totalPages)
    /\ ret.op = "stores" =>
          ProgressAsBatches(env.build, ret.progress, ret.requested,
                            ret.totalPages)
C31_SecondBatchAnnounced ==
    /\ ret.op = "stores"
    /\ ret.kind = "returned"
    /\ env.build = "rotating"
    /\ Len(ret.progress) = 3
    /\ ret.progress[2] = [x |-> 8, y |-> 13, n |-> 14, at |-> 6]
    /\ ret.progress[3] = [x |-> 14, y |-> 14, n |-> 14, at |-> 12]

\* C32: every point comes back as [lat, lon] of its [lon, lat], the points of
\* a ring in the order of the text, a repeated closing point included; an
\* empty text or one without a point gives the empty polygon, and no text
\* makes the parse throw.
Num(neg, int, frac) ==
    [finite |-> TRUE, neg |-> neg, int |-> int, frac |-> frac]
LatLonOf(token) ==
    CASE token = <<"1", "2", "7", " ", "3", "7">> ->
            << Num(FALSE, <<"3", "7">>, <<>>), Num(FALSE, <<"1", "2", "7">>, <<>>) >>
      [] token = <<"-", "1", ".", "7", " ", "+", "2">> ->
            << Num(FALSE, <<"2">>, <<>>), Num(TRUE, <<"1">>, <<"7">>) >>
      [] token = <<" ", "2", " ", " ", "1", " ">> ->
            << Num(FALSE, <<"1">>, <<>>), Num(FALSE, <<"2">>, <<>>) >>
      [] OTHER -> <<>>
AllTokensIn(input, tokens) ==
    /\ input # NoCoords
    /\ \A r \in 1 .. Len(input.rings) :
          \A k \in 1 .. Len(input.rings[r]) : input.rings[r][k] \in tokens
C32_SwappedInOrderElseEmpty ==
    ret.op = "parseWKT" =>
        /\ ret.kind = "returned"
        /\ AllTokensIn(ret.input, GoodTokens) =>
              /\ Len(ret.value) = Len(ret.input.rings)
              /\ \A r \in 1 .. Len(ret.input.rings) :
                    /\ Len(ret.value[r]) = Len(ret.input.rings[r])
                    /\ \A k \in 1 .. Len(ret.input.rings[r]) :
                          ret.value[r][k] = LatLonOf(ret.input.rings[r][k])
        /\ (\/ ret.input = NoCoords
            \/ AllTokensIn(ret.input,
                           { <<"x", " ", "3", "7">>, <<"1", "2", "7">>, <<>> }))
              => ret.value = <<>>

\* C33: when reset is called while a zone search, a boundary resolution or a
\* store fetch is in flight, the later completion of that work changes
\* nothing of the caller's state: found zones, selected zone, stores,
\* statistics, data date, step and error stay as they are.
CallerState(a) ==
    << a.foundZones, a.tradeZone, a.allRawStores, a.storeStats, a.dataDate,
       a.step, a.error >>
Completes(id) ==
    /\ id \in DOMAIN app.tasks
    /\ id \notin DOMAIN app'.tasks
C33_AbandonedWorkIgnored ==
    [][\A id \in TaskIds :
          (/\ Completes(id)
           /\ app.tasks[id].abandoned
           /\ app.tasks[id].h \in {"search", "analyze"}) =>
              CallerState(app') = CallerState(app)]_vars

\* C34: after reset no zone built by the search before it is left in the
\* caller's state: the list of found zones is empty, and neither the selected
\* zone nor the previewed zone is a zone of that search.
C34_NoZoneLeftAfterReset ==
    [][app' = ResetState(app) =>
          /\ app'.foundZones = <<>>
          /\ app'.tradeZone = NullZone
          /\ app'.previewZone.search = 0]_vars

\* C39: each of the three handlers sets the loading flag when it starts and
\* clears it when it finishes, on success and on failure alike: every handler
\* started clears the flag in the end, and the flag is false whenever no
\* handler is in flight. (handleGeocode called with no address returns at
\* once: it starts nothing and leaves the flag alone.)
Starts(id) ==
    /\ id \notin DOMAIN app.tasks
    /\ id \in DOMAIN app'.tasks
AuthFailures == {"auth_net", "auth_nonjson", "auth_errCd"}
C35_TokenAndExpiryTogether ==
    [][/\ (ret'.op = "resolve" /\ ret'.why \in AuthFailures) =>
             /\ sgisAccessToken' = sgisAccessToken
             /\ tokenExpiry' = tokenExpiry
             /\ ret'.kind \in {"returned", "raised"}
             /\ ret'.value = EmptyPolygon
       /\ (sgisAccessToken' # sgisAccessToken \/ tokenExpiry' # tokenExpiry) =>
             /\ \E p \in Procs : pc[p] = "auth" /\ pc'[p] = "geo"
             /\ nAuth' = nAuth + 1
             /\ sgisAccessToken' = nAuth'
             /\ sgisAccessToken' # sgisAccessToken
             /\ tokenExpiry' \in { now + t : t \in {DefaultTimeoutMs,
                                                    2 * TokenBufferMs} }]_vars
C35_FailedRefreshKeepsToken ==
    /\ ret.op = "resolve"
    /\ ret.why = "auth_errCd"
    /\ sgisAccessToken = 1
    /\ tokenExpiry = 2 * TokenBufferMs
    /\ now >= TickMs

\* C36: a resolution stores its result in the cache only when it got a polygon
\* that is not empty: an empty result is never stored, every stored value has
\* a ring, and a label whose resolution came back empty, not being in the
\* cache, is asked of the network again by the next call.
C36_OnlyPolygonsCached ==
    /\ [](\A l \in DOMAIN polygonCache : Len(polygonCache[l].rings) > 0)
    /\ [][/\ (polygonCache' # polygonCache) =>
                /\ ret'.op = "resolve" /\ ret'.why = "ok" /\ ~ret'.hit
                /\ Len(ret'.value.rings) > 0
                /\ polygonCache' = CacheSet(polygonCache, ret'.zone, ret'.value)
          /\ (ret'.op = "resolve" /\ ret'.value = EmptyPolygon) =>
                polygonCache' = polygonCache
          /\ \A p \in Procs :
                (/\ StartsResolve(p)
                 /\ env.build = "rotating"
                 /\ ~CacheHas(polygonCache, CalledZone(p))) =>
                    \/ pc'[p] \in {"auth", "geo"} /\ Len(loc'[p].reqs) = 1
                    \/ ret'.why = "nokey" /\ ~ret'.hit]_vars
C36_EmptyAgainFromNetwork ==
    /\ env.build = "rotating"
    /\ ret.op = "resolve"
    /\ ret.value = EmptyPolygon
    /\ ret.why = "nocoords"
    /\ nRet = 2
    /\ polygonCache = <<>>
    /\ Len(ret.reqs) >= 2

\* C37: unless the early stop triggers, every page from 2 to the number of
\* pages is requested once and none beyond it; the stores returned are those
\* of the first page followed by those of the usable later pages in the order
\* of the pages, in whatever order the responses of a batch arrive.
RECURSIVE SumItems(_)
SumItems(validResults) ==
    IF Len(validResults) = 0 THEN 0
    ELSE Head(validResults).items + SumItems(Tail(validResults))
PagesFrom2(n) == [k \in 1 .. (IF n > 1 THEN n - 1 ELSE 0) |-> k + 1]
C37_EveryPageOnceInOrder ==
    /\ [](( ret.op = "stores" /\ ret.kind = "returned") =>
            /\ IsPrefix(ret.requested, PagesFrom2(ret.totalPages))
            /\ ret.consecutiveErrors < 2 =>
                  ret.requested = PagesFrom2(ret.totalPages))
    /\ [][\A p \in Procs :
            (pc[p] = "batch" /\ pc'[p] # "batch") =>
                LET got == loc[p].results
                    validResults == IF pc'[p] = "sleep"
                                    THEN loc'[p].validResults
                                    ELSE ret'.validResults
                    after == IF pc'[p] = "sleep" THEN loc'[p].allStores
                             ELSE ret'.stores
                IN  /\ DOMAIN got =
                          loc[p].i .. EndPage(env.build, loc[p].i,
                                              loc[p].totalPages)
                    /\ \A k \in 1 .. Len(validResults) :
                          /\ validResults[k].page \in DOMAIN got
                          /\ got[validResults[k].page].valid
                          /\ validResults[k].items =
                                got[validResults[k].page].items
                          /\ k > 1 => validResults[k - 1].page
                                        < validResults[k].page
                    /\ \A q \in DOMAIN got :
                          got[q].valid =>
                              \E k \in 1 .. Len(validResults) :
                                  validResults[k].page = q
                    /\ after = loc[p].allStores + SumItems(validResults)]_vars
C37_AllPagesCollected ==
    /\ ret.op = "stores"
    /\ ret.kind = "returned"
    /\ ret.totalPages = MaxPages
    /\ ret.consecutiveErrors = 0
    /\ ret.requested = PagesFrom2(MaxPages)
    /\ ret.stores = MaxPages - 2
    /\ ret.valids[1] = 2

\* C38: a page beyond the first that fails - on every network path, with an
\* XML envelope or with a body that is not JSON - never makes fetchStores or
\* fetchStoresInAdmin fail. The step in which such a page settles raises
\* nothing, adds no store and requests nothing; no page is requested twice;
\* the stores after a batch are those before it plus the stores of its usable
\* pages; and a call is only ever raised to the caller before any later page
\* was requested.
StoresAfter(p) ==
    IF pc'[p] = "idle" THEN ret'.stores ELSE loc'[p].allStores
UsableStores(l, endPage) ==
    Cardinality({q \in l.i .. endPage :
                    l.results[q].valid /\ l.results[q].items = 1})
NoRepeat(s) == \A a, b \in DOMAIN s : s[a] = s[b] => a = b
C38_LaterPageFailureNotRaised ==
    [][\A p \in Solo :
          /\ (pc[p] = "batch" /\ loc[p].pending # {} /\ loc'[p] # loc[p])
                => /\ pc'[p] = "batch"
                   /\ ret'.kind # "raised"
                   /\ loc'[p].allStores = loc[p].allStores
                   /\ loc'[p].requested = loc[p].requested
          /\ (pc[p] = "batch" /\ pc'[p] # "batch")
                => /\ StoresAfter(p) = loc[p].allStores
                        + UsableStores(loc[p], EndPage(env.build, loc[p].i,
                                                       loc[p].totalPages))
                   /\ ret'.kind # "raised"
          /\ (pc[p] = "page" /\ pc'[p] # "page")
                => /\ pc'[p] = "loopsleep"
                   /\ ret'.kind # "raised"
                   /\ loc'[p].requested = loc[p].requested
                   /\ loc'[p].allStores - loc[p].allStores \in {0, 1}
                   /\ fr[p].st = "failed"
                        => loc'[p].allStores = loc[p].allStores
          /\ (pc[p] # pc'[p] /\ pc'[p] \in {"batch", "page"})
                => NoRepeat(loc'[p].requested)
          /\ (nRet' # nRet /\ ret'.op = "stores" /\ ret'.kind = "raised")
                => /\ pc[p] \in {"idle", "first", "loopfirst"}
                   /\ ret'.requested = <<>>
                   /\ ret'.why \in {"auth", "network", "xml_error"}
      ]_vars

\* A call has returned stores of later pages although all pages of one batch,
\* or one page of the loop, gave nothing usable.
C38_ReturnedDespiteFailedPages ==
    /\ ret.op = "stores"
    /\ ret.kind = "returned"
    /\ ret.stores > 1
    /\ \E k \in DOMAIN ret.valids : ret.valids[k] = 0
    /\ \E j \in DOMAIN ret.valids : ret.valids[j] > 0

====
